---- MODULE Spec2Model ----
(***************************************************************************)
(* A model of the transcript parser (src/transcript_parser): the row       *)
(* groupers, the course scanner, the student/university extractor, the     *)
(* PDF-vs-OCR source selection and the report printed by main.             *)
(*                                                                         *)
(* Text is modelled character by character: a string is a sequence of      *)
(* one-character strings, so every regular expression of the source is an  *)
(* operator that computes the match on the characters.  Coordinates are    *)
(* integers in tenths of a PDF unit (3.2 is 32, "+ 1" is 10).  A Python    *)
(* optional value is <<>> for None and <<v>> for a value v.                *)
(***************************************************************************)
EXTENDS Integers, Sequences, FiniteSets, TLC

VARIABLES
    \* ---- main(): one run of the command line over a list of files
    args,        \* [inputs, subjects, force_ocr, verbose]: the parsed command line
    env,         \* the value of TRANSCRIPT_FORCE_OCR in the environment
    inst,        \* which libraries import and initialise
    files,       \* the disk: per input path, what the PDF library and OCR read
    pc,          \* position of main in its per-file loop
    fi,          \* index of the file being processed (1-based)
    res,         \* run_file's result for the current file
    entries,     \* main's de-duplicated, not yet sorted course lines
    out,         \* stdout so far, a sequence of printed lines
    ocr_calls,   \* the paths for which _extract_rows_ocr was called, in order
    \* ---- _scan_rows_for_courses run one row at a time
    s_rows, s_allowed, s_i, s_out, s_pc,
    \* ---- the row groupers run on one page of words
    g_words,     \* the words of the page, sorted by (top, x0)
    g_tol,       \* y_tol
    g_i,         \* index of the next word of group_words_into_rows' loop
    g_st,        \* its cur and rows
    g_split,     \* the words before g_split are page 1, the rest page 2
    g_prows,     \* the rows of _extract_rows_pdfplumber
    g_lines,     \* the OCR lines of each page, in the order the engine gave them
    g_orows,     \* the rows of _extract_rows_ocr
    g_pc,
    \* ---- the body of the pair loop of _scan_rows_for_courses for one anchor
    p_rows,      \* the document; row 1 is the anchor row
    p_k,         \* index of the next token of the same-row title scan
    p_scan,      \* started_title, title_left_x, credits_x0, title_tokens
    p_j,         \* index of the next row of the stitch loop
    p_st,        \* title_tokens, credits_x0, joined_rows of the stitch loop
    p_rec,       \* the record appended to out, once it is
    p_pc,
    \* ---- the presentation of the matches of one file in main
    q_matches,   \* the matches run_file returned
    q_lines,     \* the lines printed for them
    q_pc,
    \* ---- the two cleanups of the student name
    c_raw,       \* the name the patterns found
    c_name,      \* student
    c_pc

mainVars  == <<args, env, inst, files, pc, fi, res, entries, out, ocr_calls>>
scanVars  == <<s_rows, s_allowed, s_i, s_out, s_pc>>
groupVars == <<g_words, g_tol, g_i, g_st, g_split, g_prows, g_lines, g_orows, g_pc>>
pairVars  == <<p_rows, p_k, p_scan, p_j, p_st, p_rec, p_pc>>
sortVars  == <<q_matches, q_lines, q_pc>>
cleanVars == <<c_raw, c_name, c_pc>>
vars == <<mainVars, scanVars, groupVars, pairVars, sortVars, cleanVars>>

----------------------------------------------------------------------------
(* Optional values and small arithmetic                                    *)

NoneV == <<>>
Some(v) == <<v>>
IsNone(o) == o = <<>>
Val(o) == o[1]

Abs(n) == IF n < 0 THEN -n ELSE n
MinOf(S) == CHOOSE m \in S : \A n \in S : m <= n
MaxOf(S) == CHOOSE m \in S : \A n \in S : n <= m

Front(s) == SubSeq(s, 1, Len(s) - 1)
Last(s) == s[Len(s)]

\* the element of a set of one element.  The({F(x) : x \in {e}}) is F(e) with
\* e computed first, the way a statement's value exists before the next
\* statement reads it
The(S) == CHOOSE x \in S : TRUE

RECURSIVE Concat(_)
Concat(ss) == IF ss = <<>> THEN <<>> ELSE Head(ss) \o Concat(Tail(ss))

----------------------------------------------------------------------------
(* Characters and strings                                                  *)

UpperSeq == <<"A","B","C","D","E","F","G","H","I","J","K","L","M",
              "N","O","P","Q","R","S","T","U","V","W","X","Y","Z">>
LowerSeq == <<"a","b","c","d","e","f","g","h","i","j","k","l","m",
              "n","o","p","q","r","s","t","u","v","w","x","y","z">>
UpperLetters == {UpperSeq[i] : i \in 1..26}
LowerLetters == {LowerSeq[i] : i \in 1..26}
Digits == {"0","1","2","3","4","5","6","7","8","9"}
\* the characters Python's \s and str.strip() treat as white space
Spaces == {" ", "\n", "\t", "NBSP"}

IsLetter(c) == c \in UpperLetters \/ c \in LowerLetters
IsDigit(c) == c \in Digits
IsWordC(c) == IsLetter(c) \/ IsDigit(c) \/ c = "_"
IsSpaceC(c) == c \in Spaces

ToUpperC == [c \in LowerLetters |-> UpperSeq[CHOOSE i \in 1..26 : LowerSeq[i] = c]]
ToLowerC == [c \in UpperLetters |-> LowerSeq[CHOOSE i \in 1..26 : UpperSeq[i] = c]]
UpC(c) == IF c \in LowerLetters THEN ToUpperC[c] ELSE c
LowC(c) == IF c \in UpperLetters THEN ToLowerC[c] ELSE c

\* str.upper() / str.lower()
Upper(s) == [i \in 1..Len(s) |-> UpC(s[i])]
Lower(s) == [i \in 1..Len(s) |-> LowC(s[i])]

\* the positions of s (1-based) at which pat occurs
MatchAt(s, pat, i) ==
    /\ i >= 1
    /\ i + Len(pat) - 1 <= Len(s)
    /\ \A k \in 1..Len(pat) : s[i + k - 1] = pat[k]
\* s.find(pat), 1-based; 0 when pat does not occur
Find(s, pat) ==
    LET hits == {i \in 1..(Len(s) - Len(pat) + 1) : MatchAt(s, pat, i)}
    IN  IF hits = {} THEN 0 ELSE MinOf(hits)
Contains(s, pat) == Find(s, pat) # 0
StartsWith(s, pat) == MatchAt(s, pat, 1)
EndsWith(s, pat) == MatchAt(s, pat, Len(s) - Len(pat) + 1)

\* s.lstrip(chars), s.rstrip(chars), s.strip(chars) for a set of characters
FirstOutside(s, cs) ==
    LET keep == {i \in 1..Len(s) : s[i] \notin cs}
    IN  IF keep = {} THEN Len(s) + 1 ELSE MinOf(keep)
LastOutside(s, cs) ==
    LET keep == {i \in 1..Len(s) : s[i] \notin cs}
    IN  IF keep = {} THEN 0 ELSE MaxOf(keep)
LStripSet(s, cs) == SubSeq(s, FirstOutside(s, cs), Len(s))
RStripSet(s, cs) == SubSeq(s, 1, LastOutside(s, cs))
StripSet(s, cs) == RStripSet(LStripSet(s, cs), cs)
\* s.strip()
Strip(s) == StripSet(s, Spaces)

\* sep.join(parts)
RECURSIVE Join(_, _)
Join(parts, sep) ==
    IF parts = <<>> THEN <<>>
    ELSE IF Len(parts) = 1 THEN parts[1]
    ELSE parts[1] \o sep \o Join(Tail(parts), sep)

\* the regex assertion \b between positions i-1 and i of s (1 <= i <= Len(s)+1)
WordBoundary(s, i) ==
    LET before == i > 1 /\ IsWordC(s[i - 1])
        after  == i <= Len(s) /\ IsWordC(s[i])
    IN  before # after

\* the first position >= i of s that holds no white space (Len(s)+1 if none)
SkipSpaces(s, i) ==
    LET stop == {k \in i..Len(s) : ~IsSpaceC(s[k])}
    IN  IF stop = {} THEN Len(s) + 1 ELSE MinOf(stop)

\* the end of the line of s that position i is on: the position of its "\n",
\* or Len(s)+1 on the last line
LineEnd(s, i) ==
    LET nl == {k \in i..Len(s) : s[k] = "\n"}
    IN  IF nl = {} THEN Len(s) + 1 ELSE MinOf(nl)

\* the value of a string of decimal digits
RECURSIVE IntOf(_)
IntOf(s) ==
    IF s = <<>> THEN 0
    ELSE 10 * IntOf(Front(s)) + (CHOOSE d \in 0..9 : <<"0","1","2","3","4","5","6","7","8","9">>[d + 1] = Last(s))

----------------------------------------------------------------------------
(* Tokens, rows and the three row groupers                                 *)

\* parse_transcript.Tok and parse_transcript.Row
Tok(text, x0, x1, y0, y1, page) ==
    [text |-> text, x0 |-> x0, x1 |-> x1, y0 |-> y0, y1 |-> y1, page |-> page]
Row(page, y, toks) == [page |-> page, y |-> y, toks |-> toks]
\* debug_dump.Token and debug_dump.Row (no page)
Token(text, x0, x1, y0, y1) == [text |-> text, x0 |-> x0, x1 |-> x1, y0 |-> y0, y1 |-> y1]
DRow(y, toks) == [y |-> y, toks |-> toks]

\* a word as the PDF library gives it
Word(text, x0, x1, top, bottom) ==
    [text |-> text, x0 |-> x0, x1 |-> x1, top |-> top, bottom |-> bottom]

Y_TOL_PDF   == 32    \* y_tol: float = 3.2
Y_TOL_OCR   == 60    \* y_tol: float = 6.0
Y_TOL_DEBUG == 30    \* y_tol: float = 3.0

_normalize_text(s) ==
    [i \in 1..Len(s) |->
        IF s[i] = "NBSP" THEN " "
        ELSE IF s[i] \in {"ENDASH", "EMDASH", "MINUS"} THEN "-"
        ELSE s[i]]

\* Python's list.sort and sorted are stable: the element at index i of the
\* list goes behind the elements with a smaller key and behind the elements
\* before it with an equal key.

\* list.sort(key=lambda t: t.x0)
SortByX0(s) ==
    LET n == Len(s)
        Pos(i) == Cardinality({j \in 1..n : \/ s[j].x0 < s[i].x0
                                            \/ s[j].x0 = s[i].x0 /\ j < i}) + 1
    IN  [k \in 1..n |-> s[CHOOSE i \in 1..n : Pos(i) = k]]

\* words.sort(key=lambda w: (top, x0))
WordKeyLess(a, b) == a.top < b.top \/ (a.top = b.top /\ a.x0 < b.x0)
SortWords(s) ==
    LET n == Len(s)
        Pos(i) == Cardinality({j \in 1..n : \/ WordKeyLess(s[j], s[i])
                                            \/ ~WordKeyLess(s[i], s[j]) /\ j < i}) + 1
    IN  [k \in 1..n |-> s[CHOOSE i \in 1..n : Pos(i) = k]]

\* rows.sort(key=lambda r: (r.page, r.y))
RowKeyLess(a, b) == a.page < b.page \/ (a.page = b.page /\ a.y < b.y)
SortRows(s) ==
    LET n == Len(s)
        Pos(i) == Cardinality({j \in 1..n : \/ RowKeyLess(s[j], s[i])
                                            \/ ~RowKeyLess(s[i], s[j]) /\ j < i}) + 1
    IN  [k \in 1..n |-> s[CHOOSE i \in 1..n : Pos(i) = k]]

\* closing a row: cur.toks.sort(key=x0); rows.append(cur)
CloseRowNoSort(cur) == cur
\* a variant that takes the row's y from the leftmost token
CloseRowLeftmostY(cur) ==
    [cur EXCEPT !.toks = SortByX0(cur.toks), !.y = SortByX0(cur.toks)[1].y0]
CloseRow(cur) == [cur EXCEPT !.toks = SortByX0(cur.toks)]

\* ---- debug_dump.group_words_into_rows
_to_str(v) == Strip(v)

\* one iteration of the loop over words; st = [cur, rows], cur optional
DD_Step(st, w, y_tol) ==
    LET t == _to_str(w.text)
        tok == Token(t, w.x0, w.x1, w.top, w.bottom)
    IN  IF t = <<>> THEN st
        ELSE IF IsNone(st.cur) \/ Abs(w.top - Val(st.cur).y) > y_tol
        THEN [cur |-> Some(DRow(w.top, <<tok>>)),
              rows |-> IF IsNone(st.cur) THEN st.rows
                       ELSE Append(st.rows, CloseRow(Val(st.cur)))]
        ELSE [st EXCEPT !.cur = Some([Val(st.cur) EXCEPT !.toks = Append(@, tok)])]
\* the flush after the loop
DD_Flush(st) ==
    IF IsNone(st.cur) THEN st.rows ELSE Append(st.rows, CloseRow(Val(st.cur)))

RECURSIVE DD_Fold(_, _, _)
DD_Fold(st, words, y_tol) ==
    IF words = <<>> THEN st ELSE DD_Fold(DD_Step(st, Head(words), y_tol), Tail(words), y_tol)
group_words_into_rows(words, y_tol) ==
    DD_Flush(DD_Fold([cur |-> NoneV, rows |-> <<>>], words, y_tol))

\* ---- parse_transcript._extract_rows_pdfplumber
PP_Step(st, w, pidx, y_tol) ==
    LET t == _normalize_text(w.text)
        tok == Tok(t, w.x0, w.x1, w.top, w.bottom, pidx)
    IN  IF t = <<>> THEN st
        ELSE IF \/ IsNone(st.cur)
                \/ Abs(w.top - Val(st.cur).y) > y_tol
                \/ tok.page # Val(st.cur).page
        THEN [cur |-> Some(Row(pidx, w.top, <<tok>>)),
              rows |-> IF IsNone(st.cur) THEN st.rows
                       ELSE Append(st.rows, CloseRow(Val(st.cur)))]
        ELSE [st EXCEPT !.cur = Some([Val(st.cur) EXCEPT !.toks = Append(@, tok)])]

\* the loop over the words of a page.  Before the first row is open a word
\* without text changes nothing; reading st.cur at every word also makes TLC
\* compute each state before the next word, instead of leaving one pending
\* step per word
RECURSIVE PP_Fold(_, _, _, _)
PP_Fold(st, words, pidx, y_tol) ==
    IF words = <<>> THEN st
    ELSE IF IsNone(st.cur) /\ _normalize_text(Head(words).text) = <<>>
    THEN PP_Fold(st, Tail(words), pidx, y_tol)
    ELSE PP_Fold(PP_Step(st, Head(words), pidx, y_tol), Tail(words), pidx, y_tol)

\* the body of the loop over pages: sort the page's words, group, flush.
\* cur starts as None on every page, so a page only appends to rows: the
\* result is the rows it appends
PP_Page(words, pidx, y_tol) ==
    LET st == PP_Fold([cur |-> NoneV, rows |-> <<>>], SortWords(words), pidx, y_tol)
    IN  IF IsNone(st.cur) THEN st.rows ELSE Append(st.rows, CloseRow(Val(st.cur)))

\* the rows the pages append, page after page
PP_Pages(pages, y_tol) == Concat([p \in 1..Len(pages) |-> PP_Page(pages[p], p, y_tol)])

\* pages: the words of each page of an opened PDF
_extract_rows_pdfplumber(pages, y_tol) == SortRows(PP_Pages(pages, y_tol))

\* ---- parse_transcript._extract_rows_ocr
\* An OCR line is [box, txt]: box the four corner points <<x, y>>.
OcrLine(box, txt) == [box |-> box, txt |-> txt]
Box(x0, y0, x1, y1) == << <<x0, y0>>, <<x1, y0>>, <<x1, y1>>, <<x0, y1>> >>

\* push_token: the first row of the page within y_tol takes the token
RECURSIVE PushToken(_, _, _)
PushToken(page_rows, tok, y_tol) ==
    IF page_rows = <<>> THEN <<Row(tok.page, tok.y0, <<tok>>)>>
    ELSE IF Abs(Head(page_rows).y - tok.y0) <= y_tol
    THEN <<[Head(page_rows) EXCEPT !.toks = Append(@, tok)]>> \o Tail(page_rows)
    ELSE <<Head(page_rows)>> \o PushToken(Tail(page_rows), tok, y_tol)

OcrTok(line, pidx) ==
    LET xs == {line.box[k][1] : k \in 1..4}
        ys == {line.box[k][2] : k \in 1..4}
    IN  Tok(_normalize_text(line.txt), MinOf(xs), MaxOf(xs), MinOf(ys), MaxOf(ys), pidx)

RECURSIVE OcrPageRows(_, _, _, _)
OcrPageRows(page_rows, lines, pidx, y_tol) ==
    IF lines = <<>> THEN page_rows
    ELSE LET line == Head(lines)
             nxt == IF line.txt = <<>> THEN page_rows
                    ELSE PushToken(page_rows, OcrTok(line, pidx), y_tol)
         IN  OcrPageRows(nxt, Tail(lines), pidx, y_tol)

\* a page's rows: tokens sorted by x0; the (page, y) sort of all rows is a
\* stable sort, so it also does the per-page sort by y
OcrPageSorted(lines, pidx, y_tol) ==
    LET pr == OcrPageRows(<<>>, lines, pidx, y_tol)
    IN  [k \in 1..Len(pr) |-> CloseRow(pr[k])]

\* images: per page, <<>> when the page raised or gave no result, else
\* <<lines>> (res[0])
RECURSIVE OcrPages(_, _, _)
OcrPages(images, pidx, y_tol) ==
    IF pidx > Len(images) THEN <<>>
    ELSE (IF IsNone(images[pidx]) THEN <<>>
          ELSE OcrPageSorted(Val(images[pidx]), pidx, y_tol))
         \o OcrPages(images, pidx + 1, y_tol)

\* ocr: [paddle, pdf2image: importable?, init_ok, convert_ok, images]
_extract_rows_ocr(ocr, y_tol) ==
    IF ~ocr.paddle \/ ~ocr.pdf2image THEN <<>>
    ELSE IF ~ocr.init_ok THEN <<>>
    ELSE IF ~ocr.convert_ok THEN <<>>
    ELSE SortRows(OcrPages(ocr.images, 1, y_tol))

----------------------------------------------------------------------------
(* The regular expressions and token tables of the course scanner          *)

\* re.fullmatch(r"[A-Za-z]{2,}", s)
IsAlpha2(s) == Len(s) >= 2 /\ \A i \in 1..Len(s) : IsLetter(s[i])

\* NUM_TOKEN_PAT = (?i)^\d{3,4}[A-Z]?$
NumDigitsOf(s) ==
    IF Len(s) >= 1 /\ IsLetter(s[Len(s)]) THEN Len(s) - 1 ELSE Len(s)
\* a variant that wants four digits: (?i)^\d{4}[A-Z]?$
NUM_TOKEN_PAT_4(s) ==
    LET d == NumDigitsOf(s)
    IN  d = 4 /\ \A i \in 1..d : IsDigit(s[i])
NUM_TOKEN_PAT(s) ==
    LET d == NumDigitsOf(s)
    IN  d \in {3, 4} /\ \A i \in 1..d : IsDigit(s[i])

\* GRADE_TOKEN_STRICT = (?i)^(A|B|C|D|F)([+\-−])?$
GradeLetters == {"A", "B", "C", "D", "F"}
GRADE_TOKEN_STRICT(s) ==
    /\ Len(s) \in {1, 2}
    /\ UpC(s[1]) \in GradeLetters
    /\ Len(s) = 2 => s[2] \in {"+", "-", "MINUS"}

\* GRADE_TOKEN_LOOSE = (?i)^(P|S|U|I|T)$
GRADE_TOKEN_LOOSE(s) == Len(s) = 1 /\ UpC(s[1]) \in {"P", "S", "U", "I", "T"}

\* LEVEL_TOKEN = (?i)^(UG|GR|G|U)$
LEVEL_TOKEN_single_letter(s) == Upper(s) \in {<<"G">>, <<"U">>}
LEVEL_TOKEN(s) == Upper(s) \in {<<"U","G">>, <<"G","R">>, <<"G">>, <<"U">>}

\* re.fullmatch(r"\d+\.\d{2,3}", s): a credits number
IsCredits(s) ==
    LET dot == Find(s, <<".">>)
    IN  /\ dot >= 2
        /\ Len(s) - dot \in {2, 3}
        /\ \A i \in 1..Len(s) : i # dot => IsDigit(s[i])

\* URL_PAT = https?://  (search)
URL_PAT(s) == Contains(s, <<"h","t","t","p",":","/","/">>) \/ Contains(s, <<"h","t","t","p","s",":","/","/">>)

\* INPROG_PAT = (?i)\bIN\s+PROGRESS\b matched at position i of s; the end of
\* the match (the position after it), or 0 when it does not match there
InProgEnd(s, i) ==
    LET u == Upper(s)
        j == SkipSpaces(s, i + 2)
    IN  IF /\ WordBoundary(s, i)
           /\ MatchAt(u, <<"I","N">>, i)
           /\ j > i + 2
           /\ MatchAt(u, <<"P","R","O","G","R","E","S","S">>, j)
           /\ WordBoundary(s, j + 8)
        THEN j + 8 ELSE 0
INPROG_search(s) == \E i \in 1..Len(s) : InProgEnd(s, i) # 0
INPROG_fullmatch(s) == InProgEnd(s, 1) = Len(s) + 1

FLAG_SINGLE_LETTERS == {<<"C">>, <<"R">>, <<"H">>}

STOP_TOKENS == {
    <<"E","A","R","N","E","D">>, <<"E","A","R","N","E","D",":">>, <<"C","U","M","U","L","A","T","I","V","E">>, <<"Q","P","T","S">>, <<"G","P","A">>, <<"A","T","T",":">>, <<"A","T","T">>,
    <<"C","R","E","D","I","T","S">>, <<"S","E","M","E","S","T","E","R">>, <<"T","E","R","M">>, <<"S","E","S","S","I","O","N">>, <<"Q","U","A","R","T","E","R">>, <<"G","R","A","D","U","A","T","E">>,
    <<"U","N","D","E","R","G","R","A","D","U","A","T","E">>, <<"G","R","A","D">>, <<"E","N","D">>, <<"T","R","A","N","S","C","R","I","P","T">>, <<"E","X","P","L","A","N","A","T","I","O","N">>,
    <<"R","E","G","I","S","T","R","A","R">>, <<"R","E","G","I","S","T","R","A","R","RSQUO","S">>, <<"R","E","G","I","S","T","R","A","R","'","S">>, <<"O","F","F","I","C","E">>,
    <<"T","C","R">>, <<"T","A">>, <<"T","B">>, <<"T","C">>, <<"T","D">>, <<"T","F">>}

PRETITLE_TOKENS == {
    <<"M","A","I","N">>, <<"C","A","M","P","U","S">>, <<"C","A","M","P","U","S","-">>, <<"O","N","L","I","N","E">>, <<"R","E","M","O","T","E">>, <<"D","I","S","T","A","N","C","E">>,
    <<"L","E","A","R","N","I","N","G">>, <<"D","L">>, <<"H","Y","B","R","I","D">>, <<"U","N","F">>, <<"U","T","K">>, <<"U","N","I","V">>, <<"C","O","L">>}

_is_stop_token(t) ==
    \/ RStripSet(Upper(Strip(t)), {":"}) \in STOP_TOKENS
    \/ INPROG_fullmatch(Strip(t))

\* " ".join(t.text for t in row.toks)
Texts(toks) == [k \in 1..Len(toks) |-> toks[k].text]
_row_text(row) == Join(Texts(row.toks), <<" ">>)

\* ADMIN_ROW = (?i)^(Ehrs|GPA|TOTAL|Dean's List|Good Standing|Earned Hrs|
\*                  TRANSCRIPT TOTALS|Totals?)\b   (match: at the start)
AdminWords == {
    <<"E","H","R","S">>, <<"G","P","A">>, <<"T","O","T","A","L">>, <<"D","E","A","N","'","S"," ","L","I","S","T">>, <<"G","O","O","D"," ","S","T","A","N","D","I","N","G">>,
    <<"E","A","R","N","E","D"," ","H","R","S">>, <<"T","R","A","N","S","C","R","I","P","T"," ","T","O","T","A","L","S">>, <<"T","O","T","A","L","S">>}
ADMIN_ROW(txt) ==
    \E w \in AdminWords :
        StartsWith(Upper(txt), w) /\ WordBoundary(txt, Len(w) + 1)

\* SEMESTER_HEADING = (?i)^(FALL|SPRING|SUMMER|WINTER|AUTUMN|JAN|MAY|AUGUST)
\*                        \s+(SEMESTER|TERM|SESSION|QUARTER)\b
SeasonWords == {<<"F","A","L","L">>, <<"S","P","R","I","N","G">>, <<"S","U","M","M","E","R">>, <<"W","I","N","T","E","R">>, <<"A","U","T","U","M","N">>,
                <<"J","A","N">>, <<"M","A","Y">>, <<"A","U","G","U","S","T">>}
TermWords == {<<"S","E","M","E","S","T","E","R">>, <<"T","E","R","M">>, <<"S","E","S","S","I","O","N">>, <<"Q","U","A","R","T","E","R">>}
SEMESTER_HEADING(txt) ==
    \E a \in SeasonWords, b \in TermWords :
        LET j == SkipSpaces(txt, Len(a) + 1)
        IN  /\ StartsWith(Upper(txt), a)
            /\ j > Len(a) + 1
            /\ MatchAt(Upper(txt), b, j)
            /\ WordBoundary(txt, j + Len(b))

\* CUMULATIVE_HEADING = (?i)^(CUMULATIVE|SUMMARY)\b
CUMULATIVE_HEADING(txt) ==
    \E w \in {<<"C","U","M","U","L","A","T","I","V","E">>, <<"S","U","M","M","A","R","Y">>} :
        StartsWith(Upper(txt), w) /\ WordBoundary(txt, Len(w) + 1)

\* END_OF_TRANSCRIPT = (?i)END OF TRANSCRIPT  (search)
END_OF_TRANSCRIPT(txt) == Contains(Upper(txt), <<"E","N","D"," ","O","F"," ","T","R","A","N","S","C","R","I","P","T">>)

_is_admin_row_never(txt) == FALSE
_is_admin_row(txt) ==
    LET up == Upper(Strip(txt))
    IN  \/ ADMIN_ROW(txt) \/ URL_PAT(txt)
        \/ SEMESTER_HEADING(up) \/ CUMULATIVE_HEADING(up)
        \/ END_OF_TRANSCRIPT(up)
        \/ StartsWith(up, <<"F","R","O","M",":">>) \/ StartsWith(up, <<"T","O",":">>)

\* the separators of PREFIX SEP NUMBER
CodeSeps == {<<":">>, <<"-">>, <<"ENDASH">>, <<"EMDASH">>}

\* a variant that knows only the adjacent form PREFIX NUMBER
RECURSIVE AdjacentPairsFrom(_, _)
AdjacentPairsFrom(toks, k) ==
    IF k > Len(toks) - 1 THEN <<>>
    ELSE IF IsAlpha2(toks[k].text) /\ NUM_TOKEN_PAT(toks[k + 1].text)
    THEN <<<<k, k + 1>>>> \o AdjacentPairsFrom(toks, k + 2)
    ELSE AdjacentPairsFrom(toks, k + 1)
_iter_code_pairs_adjacent(toks) == AdjacentPairsFrom(toks, 1)

\* _iter_code_pairs from index k (1-based): pairs <<prefix index, number index>>
RECURSIVE CodePairsFrom(_, _)
CodePairsFrom(toks, k) ==
    LET n == Len(toks)
    IN  IF k > n - 1 THEN <<>>
        ELSE IF IsAlpha2(toks[k].text) /\ NUM_TOKEN_PAT(toks[k + 1].text)
        THEN <<<<k, k + 1>>>> \o CodePairsFrom(toks, k + 2)
        ELSE IF /\ k + 2 <= n
                /\ IsAlpha2(toks[k].text)
                /\ toks[k + 1].text \in CodeSeps
                /\ NUM_TOKEN_PAT(toks[k + 2].text)
        THEN <<<<k, k + 2>>>> \o CodePairsFrom(toks, k + 3)
        ELSE CodePairsFrom(toks, k + 1)
_iter_code_pairs(toks) == CodePairsFrom(toks, 1)

\* _looks_like_title_word
_looks_like_title_word(s) ==
    \/ \E i \in 1..Len(s) : s[i] \in LowerLetters
    \/ (Len(s) >= 5 /\ \A i \in 1..Len(s) : IsLetter(s[i]))

\* _clean_title_prefix: drop (?i)^(ST|SPECIAL\s+TOPICS|SELECTED\s+TOPICS|TOPICS)
\*                      \s*[:\-]\s*  and strip
TwoWordEnd(u, a, b) ==
    \* the position after "a\s+b" at the start of u, or 0
    LET j == SkipSpaces(u, Len(a) + 1)
    IN  IF StartsWith(u, a) /\ j > Len(a) + 1 /\ MatchAt(u, b, j) THEN j + Len(b) ELSE 0
TitlePrefixHeads(u) ==
    \* the positions after each alternative that matches at the start of u
    {e \in { IF StartsWith(u, <<"S","T">>) THEN 3 ELSE 0,
             TwoWordEnd(u, <<"S","P","E","C","I","A","L">>, <<"T","O","P","I","C","S">>),
             TwoWordEnd(u, <<"S","E","L","E","C","T","E","D">>, <<"T","O","P","I","C","S">>),
             IF StartsWith(u, <<"T","O","P","I","C","S">>) THEN 7 ELSE 0 } : e # 0}
_clean_title_prefix(s) ==
    LET u == Upper(s)
        ends == {SkipSpaces(s, SkipSpaces(s, e) + 1) : e \in
                    {h \in TitlePrefixHeads(u) :
                        LET c == SkipSpaces(s, h)
                        IN  c <= Len(s) /\ s[c] \in {":", "-"}}}
    IN  IF ends = {} THEN Strip(s)
        ELSE Strip(SubSeq(s, MinOf(ends), Len(s)))

\* re.search(r"(?<!\w)(A|B|C|D|F)\s*([+\-])?(?!\w)", s): the grade matched at
\* position p (letter, then the sign if the match takes one), or <<>>
GradeAt(s, p) ==
    LET e == SkipSpaces(s, p + 1)
    IN  IF ~(s[p] \in GradeLetters /\ (p = 1 \/ ~IsWordC(s[p - 1]))) THEN <<>>
        ELSE IF /\ e <= Len(s)
                /\ s[e] \in {"+", "-"}
                /\ ~(e + 1 <= Len(s) /\ IsWordC(s[e + 1]))
        THEN <<s[p], s[e]>>
        ELSE IF e > Len(s) \/ ~IsWordC(s[e]) \/ e > p + 1 THEN <<s[p]>>
        ELSE <<>>
\* the optional result of the search: the leftmost match
GradeSearch(s) ==
    LET hits == {p \in 1..Len(s) : GradeAt(s, p) # <<>>}
    IN  IF hits = {} THEN NoneV ELSE Some(Upper(GradeAt(s, MinOf(hits))))

\* .replace("−", "-")
ReplaceMinus(s) == [i \in 1..Len(s) |-> IF s[i] = "MINUS" THEN "-" ELSE s[i]]

----------------------------------------------------------------------------
(* _scan_rows_for_courses                                                  *)

\* _title_column_x_per_page: the dict page -> x0 of the "Title" header token,
\* as the set of its items; the last header row of a page that holds such a
\* token decides
TitleTokX(toks) ==
    LET hits == {k \in 1..Len(toks) : Upper(Strip(toks[k].text)) = <<"T","I","T","L","E">>}
    IN  IF hits = {} THEN NoneV ELSE Some(toks[MinOf(hits)].x0)
IsTitleHeader(row) ==
    LET txt == Upper(_row_text(row))
    IN  /\ Contains(txt, <<"S","U","B","J","E","C","T">>) /\ Contains(txt, <<"T","I","T","L","E">>) /\ Contains(txt, <<"G","R","A","D","E">>)
        /\ ~IsNone(TitleTokX(row.toks))
_title_column_x_per_page(rows) ==
    LET heads == {k \in 1..Len(rows) : IsTitleHeader(rows[k])}
        last == {k \in heads : \A j \in heads : rows[j].page = rows[k].page => j <= k}
    IN  {<<rows[k].page, Val(TitleTokX(rows[k].toks))>> : k \in last}
\* title_x_map.get(page, None)
title_x_map_get(title_x_map, page) ==
    LET hits == {e \in title_x_map : e[1] = page}
    IN  IF hits = {} THEN NoneV ELSE Some(The(hits)[2])

is_any_course_row(r) == _iter_code_pairs(r.toks) # <<>>

\* is_in_progress_phrase(ntoks, idx), idx 1-based
is_in_progress_phrase(ntoks, idx) ==
    /\ idx + 1 <= Len(ntoks)
    /\ Upper(Strip(ntoks[idx].text)) = <<"I","N">>
    /\ Upper(Strip(ntoks[idx + 1].text)) = <<"P","R","O","G","R","E","S","S">>

\* a loop state after "break"
Break(acc) == [acc EXCEPT !.done = TRUE]

\* ----- same row title scan: the loop over right = toks[num_idx + 1:]
\* acc = [started, left, credits, toks, done]; cx = [code_end_x, next_pair_x0, title_min_x]
\* one iteration, for the token right[k]
TitleStep(acc, right, k, cx) ==
    LET t == right[k]
        up_tok == Upper(Strip(t.text))
        stopish == \/ _is_stop_token(t.text)
                   \/ LEVEL_TOKEN(t.text)
                   \/ URL_PAT(t.text)
                   \/ is_in_progress_phrase(right, k)
        left == IF IsNone(acc.left) THEN Some(t.x0) ELSE acc.left
        started == acc.started \/ _looks_like_title_word(t.text)
    IN  IF t.x0 <= cx.code_end_x + 10 THEN acc
        ELSE IF ~IsNone(cx.next_pair_x0) /\ t.x0 >= Val(cx.next_pair_x0) - 10 THEN Break(acc)
        ELSE IF up_tok \in FLAG_SINGLE_LETTERS THEN acc
        ELSE IF stopish /\ acc.started THEN Break(acc)
        ELSE IF acc.started /\ (GRADE_TOKEN_STRICT(t.text) \/ GRADE_TOKEN_LOOSE(t.text))
        THEN Break(acc)
        ELSE IF ~acc.started /\ (up_tok \in PRETITLE_TOKENS \/ LEVEL_TOKEN(t.text))
        THEN acc
        ELSE IF ~IsNone(cx.title_min_x) /\ t.x0 < Val(cx.title_min_x) - 10
        THEN acc
        ELSE IF IsCredits(t.text) THEN Break([acc EXCEPT !.credits = Some(t.x0)])
        ELSE IF ~started /\ up_tok \in {<<"S","T">>, <<"S","T",":">>}
        THEN [acc EXCEPT !.left = left]
        ELSE [started |-> started, left |-> left, credits |-> acc.credits,
              toks |-> Append(acc.toks, t.text), done |-> FALSE]
RECURSIVE TitleScan(_, _, _, _)
TitleScan(acc, right, k, cx) ==
    IF acc.done \/ k > Len(right) THEN acc
    ELSE TitleScan(TitleStep(acc, right, k, cx), right, k + 1, cx)

\* ----- the loop over the aligned tokens of one continuation row
\* acc = [toks, credits, stop_hit, done]; k is 1-based
\* one iteration, for the token aligned[k]
StitchTokenStep(acc, aligned, right_tokens, k) ==
    LET t == aligned[k]
    IN  IF Upper(Strip(t.text)) \in FLAG_SINGLE_LETTERS
        THEN acc
        ELSE IF \/ _is_stop_token(t.text) \/ LEVEL_TOKEN(t.text) \/ URL_PAT(t.text)
                \/ GRADE_TOKEN_STRICT(t.text) \/ GRADE_TOKEN_LOOSE(t.text)
        THEN Break([acc EXCEPT !.stop_hit = TRUE])
        ELSE IF /\ k + 1 <= Len(right_tokens)
                /\ Upper(Strip(t.text)) = <<"I","N">>
                /\ Upper(Strip(right_tokens[k + 1].text)) = <<"P","R","O","G","R","E","S","S">>
        THEN Break([acc EXCEPT !.stop_hit = TRUE])
        ELSE IF IsCredits(t.text)
        THEN Break([acc EXCEPT !.stop_hit = TRUE,
                               !.credits = IF IsNone(@) \/ @ = Some(0) THEN Some(t.x0) ELSE @])
        ELSE [acc EXCEPT !.toks = Append(@, t.text)]
RECURSIVE StitchTokens(_, _, _, _)
StitchTokens(acc, aligned, right_tokens, k) ==
    IF acc.done \/ k > Len(aligned) THEN acc
    ELSE StitchTokens(StitchTokenStep(acc, aligned, right_tokens, k), aligned, right_tokens, k + 1)

MAX_JOINED_ROWS == 3     \* while j < n and joined_rows < 3
ALIGN_TOL == 240         \* abs(t.x0 - title_left_x) <= 24.0
FIRST_RIGHT_TOL == 400   \* abs(first_right.x0 - title_left_x) > 40

\* ----- stitch next rows; acc = [toks, credits, joined_rows, done]; cx adds
\* title_left_x
\* one iteration of the while loop, for the row rows[j]
StitchRowStep(acc, rows, j, cx) ==
    LET next_row == rows[j]
        ntext == Strip(_row_text(next_row))
        right0 == SelectSeq(next_row.toks, LAMBDA t : t.x0 > cx.code_end_x + 10)
        right_tokens ==
            IF IsNone(cx.title_min_x) THEN right0
            ELSE SelectSeq(right0, LAMBDA t : t.x0 >= Val(cx.title_min_x) - 10)
        aligned ==
            IF IsNone(cx.title_left_x) THEN <<>>
            ELSE SelectSeq(right_tokens,
                           LAMBDA t : Abs(t.x0 - Val(cx.title_left_x)) <= ALIGN_TOL)
        inner == StitchTokens([toks |-> acc.toks, credits |-> acc.credits,
                               stop_hit |-> FALSE, done |-> FALSE],
                              aligned, right_tokens, 1)
    IN  IF _is_admin_row(ntext) \/ is_any_course_row(next_row) THEN Break(acc)
        ELSE IF aligned = <<>> THEN Break(acc)
        ELSE IF right_tokens = <<>> THEN acc
        ELSE IF /\ ~IsNone(cx.title_left_x)
                /\ Abs(right_tokens[1].x0 - Val(cx.title_left_x)) > FIRST_RIGHT_TOL
        THEN Break(acc)
        ELSE IF inner.stop_hit
        THEN [toks |-> inner.toks, credits |-> inner.credits,
              joined_rows |-> acc.joined_rows, done |-> TRUE]
        ELSE [toks |-> inner.toks, credits |-> inner.credits,
              joined_rows |-> acc.joined_rows + 1, done |-> FALSE]
\* while j < n and joined_rows < 3, as long as no break has ended the loop
StitchContinuesUnbounded(acc, rows, j) == ~acc.done /\ j <= Len(rows)
StitchContinues(acc, rows, j) ==
    ~acc.done /\ j <= Len(rows) /\ acc.joined_rows < MAX_JOINED_ROWS
RECURSIVE StitchRows(_, _, _, _)
StitchRows(acc, rows, j, cx) ==
    IF ~StitchContinues(acc, rows, j) THEN acc
    ELSE StitchRows(StitchRowStep(acc, rows, j, cx), rows, j + 1, cx)

\* the first element of s that satisfies a test, as an optional
FirstStrict(toks) ==
    LET hits == {k \in 1..Len(toks) : GRADE_TOKEN_STRICT(toks[k].text)}
    IN  IF hits = {} THEN NoneV ELSE Some(ReplaceMinus(Upper(toks[MinOf(hits)].text)))
FirstLoose(toks) ==
    LET hits == {k \in 1..Len(toks) : GRADE_TOKEN_LOOSE(toks[k].text)}
    IN  IF hits = {} THEN NoneV ELSE Some(Upper(toks[MinOf(hits)].text))

\* the tail shared by both grade finders, on the tokens they look at
GradeFromTokens(strict_from, toks) ==
    LET joined == ReplaceMinus(Upper(Join(Texts(toks), <<" ">>)))
    IN  IF ~IsNone(FirstStrict(strict_from)) THEN FirstStrict(strict_from)
        ELSE IF Contains(joined, <<"I","N"," ","P","R","O","G","R","E","S","S">>) THEN Some(<<"I","N"," ","P","R","O","G","R","E","S","S">>)
        ELSE IF ~IsNone(GradeSearch(joined)) THEN GradeSearch(joined)
        ELSE FirstLoose(toks)

strict_grade_right_of_credits(start_row, credits_x0) ==
    IF IsNone(credits_x0) THEN NoneV
    ELSE LET region_tokens ==
                 SelectSeq(start_row.toks,
                           LAMBDA t : t.x0 > Val(credits_x0) - 10 /\ ~LEVEL_TOKEN(t.text))
         IN  GradeFromTokens(region_tokens, region_tokens)

LeftIgnore == {<<"G","R","D">>, <<"G","R">>, <<"C","R">>, <<"C","R","E","D">>, <<"C","R","E","D",":">>, <<"C","R","E","D","I","T">>, <<"C","R","E","D","I","T","S">>,
               <<"P","T","S">>, <<"R">>, <<"H","R","S">>, <<"H","O","U","R","S">>}
grade_left_of_code(start_row, code_x0) ==
    LET left_tokens == SelectSeq(start_row.toks, LAMBDA t : t.x1 < code_x0 - 10)
        considered ==
            SelectSeq(left_tokens,
                      LAMBDA t : RStripSet(Upper(Strip(t.text)), {":"}) \notin LeftIgnore)
    IN  GradeFromTokens(considered, left_tokens)

\* the fallback over " ".join(_row_text(r) for r in rows[i : i + 3])
WindowGrade(rows, i) ==
    LET hi == IF i + 2 <= Len(rows) THEN i + 2 ELSE Len(rows)
        window == ReplaceMinus(Upper(
                      Join([k \in 1..(hi - i + 1) |-> _row_text(rows[i + k - 1])], <<" ">>)))
    IN  IF Contains(window, <<"I","N"," ","P","R","O","G","R","E","S","S">>) THEN <<"I","N"," ","P","R","O","G","R","E","S","S">>
        ELSE IF ~IsNone(GradeSearch(window)) THEN Val(GradeSearch(window))
        ELSE <<"n","o","n","e">>

TitleStripChars == {" ", "-", ":", ";", ","}
MakeTitle(title_tokens) ==
    _clean_title_prefix(StripSet(Join(title_tokens, <<" ">>), TitleStripChars))

CourseRecord(code, title, grade) == [code |-> code, title |-> title, grade |-> grade]
MakeCode(prefix, number) == prefix \o <<" ">> \o number

\* the grade of the pair at token pi of row i, once the stitch has its credits
PairGrade(rows, i, pi, credits) ==
    LET g1 == strict_grade_right_of_credits(rows[i], credits)
        g2 == grade_left_of_code(rows[i], rows[i].toks[pi].x0)
    IN  IF ~IsNone(g1) THEN Val(g1)
        ELSE IF ~IsNone(g2) THEN Val(g2)
        ELSE WindowGrade(rows, i)

\* the body of "for pi, num_idx in pairs" for one allowed pair: the title scan
\* of the row (scan), the stitch of the next rows (st), the grade, the record
PairRecord(rows, i, pairs, p, title_min_x) ==
    LET toks == rows[i].toks
        pi == pairs[p][1]
        num_idx == pairs[p][2]
        later == {q \in 1..Len(pairs) : pairs[q][1] > pi}
        cx0 == [code_end_x |-> toks[num_idx].x1,
                next_pair_x0 |-> IF later = {} THEN NoneV
                                 ELSE Some(toks[pairs[MinOf(later)][1]].x0),
                title_min_x |-> title_min_x]
        Scanned(cx) ==
            TitleScan([started |-> FALSE, left |-> NoneV, credits |-> NoneV, toks |-> <<>>,
                       done |-> FALSE],
                      SubSeq(toks, num_idx + 1, Len(toks)), 1, cx)
        Stitched(scan) ==
            StitchRows([toks |-> scan.toks, credits |-> scan.credits, joined_rows |-> 0,
                        done |-> FALSE], rows, i + 1,
                       [code_end_x |-> toks[num_idx].x1, title_min_x |-> title_min_x,
                        title_left_x |-> scan.left])
        Record(st) ==
            CourseRecord(MakeCode(Upper(toks[pi].text), Upper(toks[num_idx].text)),
                         MakeTitle(st.toks), PairGrade(rows, i, pi, st.credits))
    IN  The({Record(st) : st \in {Stitched(scan) : scan \in {Scanned(cx) : cx \in {cx0}}}})

\* the records of the allowed pairs of row i, in pair order
PairRecords(rows, allowed, i, pairs, title_min_x) ==
    Concat([p \in 1..Len(pairs) |->
               IF Upper(rows[i].toks[pairs[p][1]].text) \in allowed
               THEN <<PairRecord(rows, i, pairs, p, title_min_x)>> ELSE <<>>])

\* ----- cross-row stitch: the title loop over ntoks[1:]
\* acc = [started, credits, toks, done]; one iteration, for the token right[k]
CrossTitleStep(acc, right, k, cx) ==
    LET t == right[k]
        up_tok == Upper(Strip(t.text))
        started == acc.started \/ _looks_like_title_word(t.text)
    IN  IF t.x0 <= cx.code_end_x + 10 THEN acc
        ELSE IF up_tok \in FLAG_SINGLE_LETTERS THEN acc
        ELSE IF _is_stop_token(t.text) \/ LEVEL_TOKEN(t.text) \/ URL_PAT(t.text) THEN Break(acc)
        ELSE IF ~IsNone(cx.title_min_x) /\ t.x0 < Val(cx.title_min_x) - 10
        THEN acc
        ELSE IF IsCredits(t.text) THEN Break([acc EXCEPT !.credits = Some(t.x0)])
        ELSE IF ~started /\ up_tok \in {<<"S","T">>, <<"S","T",":">>}
        THEN acc
        ELSE [started |-> started, credits |-> acc.credits,
              toks |-> Append(acc.toks, t.text), done |-> FALSE]
RECURSIVE CrossTitleScan(_, _, _, _)
CrossTitleScan(acc, right, k, cx) ==
    IF acc.done \/ k > Len(right) THEN acc
    ELSE CrossTitleScan(CrossTitleStep(acc, right, k, cx), right, k + 1, cx)

CrossGrade(ntoks, credits_x0) ==
    IF IsNone(credits_x0) THEN <<"n","o","n","e">>
    ELSE LET reg == SelectSeq(ntoks,
                       LAMBDA t : t.x0 > Val(credits_x0) - 10 /\ ~LEVEL_TOKEN(t.text))
         IN  IF ~IsNone(FirstStrict(reg)) THEN Val(FirstStrict(reg))
             ELSE IF Contains(Upper(Join(Texts(reg), <<" ">>)), <<"I","N"," ","P","R","O","G","R","E","S","S">>)
             THEN <<"I","N"," ","P","R","O","G","R","E","S","S">>
             ELSE <<"n","o","n","e">>

\* the record of the cross-row stitch of row i with row i+1, if any
CrossRowRecords(rows, allowed, i, title_x_map) ==
    IF ~(i + 1 <= Len(rows) /\ ~_is_admin_row(_row_text(rows[i + 1]))) THEN <<>>
    ELSE
    LET toks == rows[i].toks
        last == toks[Len(toks)]
        ntoks == rows[i + 1].toks
        cx == [code_end_x |-> ntoks[1].x1,
               title_min_x |-> title_x_map_get(title_x_map, rows[i + 1].page)]
        scan == CrossTitleScan([started |-> FALSE, credits |-> NoneV, toks |-> <<>>,
                                done |-> FALSE],
                               Tail(ntoks), 1, cx)
    IN  IF /\ IsAlpha2(last.text)
           /\ ntoks # <<>>
           /\ NUM_TOKEN_PAT(ntoks[1].text)
           /\ Upper(last.text) \in allowed
        THEN <<CourseRecord(MakeCode(Upper(last.text), Upper(ntoks[1].text)),
                            MakeTitle(scan.toks), CrossGrade(ntoks, scan.credits))>>
        ELSE <<>>

\* one iteration of "while i < n": the records row i adds to out
ScanRow(rows, allowed, i, title_x_map) ==
    LET row == rows[i]
        txt == Strip(_row_text(row))
        recs == PairRecords(rows, allowed, i, _iter_code_pairs(row.toks),
                            title_x_map_get(title_x_map, row.page))
    IN  IF _is_admin_row(txt) THEN <<>>
        ELSE IF Len(row.toks) < 2 THEN <<>>
        ELSE IF recs # <<>> THEN recs
        ELSE CrossRowRecords(rows, allowed, i, title_x_map)

\* in_progress_seen_anywhere once the loop has ended
InProgressSeen(rows) ==
    \E k \in 1..Len(rows) : INPROG_search(Upper(Strip(_row_text(rows[k]))))

\* the rewrite after the loop
FinishScan(rows, recs) ==
    IF InProgressSeen(rows)
    THEN [k \in 1..Len(recs) |->
            IF recs[k].grade = <<"n","o","n","e">>
            THEN [recs[k] EXCEPT !.grade = <<"I","N"," ","P","R","O","G","R","E","S","S">>] ELSE recs[k]]
    ELSE recs

\* out once the loop has ended: the records of the rows, in row order
ScanAll(rows, allowed, title_x_map) ==
    Concat([i \in 1..Len(rows) |-> ScanRow(rows, allowed, i, title_x_map)])

_scan_rows_for_courses(rows, allowed) ==
    The({FinishScan(rows, ScanAll(rows, allowed, title_x_map)) :
            title_x_map \in {_title_column_x_per_page(rows)}})

----------------------------------------------------------------------------
(* _clean_student_name, _cut_university and _extract_student_university    *)

\* re.sub(r"\s{2,}", " ", s), from position i on
RECURSIVE CollapseSpaces(_, _)
CollapseSpaces(s, i) ==
    IF i > Len(s) THEN <<>>
    ELSE IF IsSpaceC(s[i])
    THEN LET j == SkipSpaces(s, i)
         IN  (IF j - i >= 2 THEN <<" ">> ELSE <<s[i]>>) \o CollapseSpaces(s, j)
    ELSE <<s[i]>> \o CollapseSpaces(s, i + 1)

\* the start of the white-space run that ends just before position q
SpaceRunStart(s, q) ==
    LET nonsp == {k \in 1..(q - 1) : ~IsSpaceC(s[k])}
    IN  IF nonsp = {} THEN 1 ELSE MaxOf(nonsp) + 1

\* re.sub(r"\s*\((?=[^)]*[0-9])[^)]*\)\s*$", "", s): an opening parenthesis q
\* qualifies when a digit comes before the next ")", and only white space
\* follows that ")"; the leftmost match is cut with the spaces before it
ParenQualifies(s, q) ==
    /\ s[q] = "("
    /\ LET closes == {r \in (q + 1)..Len(s) : s[r] = ")"}
       IN  /\ closes # {}
           /\ \E d \in (q + 1)..(MinOf(closes) - 1) : IsDigit(s[d])
           /\ SkipSpaces(s, MinOf(closes) + 1) = Len(s) + 1
DropTrailingParen(s) ==
    LET qs == {q \in 1..Len(s) : ParenQualifies(s, q)}
    IN  IF qs = {} THEN s ELSE SubSeq(s, 1, SpaceRunStart(s, MinOf(qs)) - 1)

\* the part of s before its first at-sign: s.split(at, 1)[0]
BeforeAt(s) == IF Find(s, <<"@">>) = 0 THEN s ELSE SubSeq(s, 1, Find(s, <<"@">>) - 1)

NameStripChars == {" ", ",", ";"}

\* _clean_student_name on an optional string
_clean_student_name(o) ==
    IF IsNone(o) \/ o = Some(<<>>) THEN o
    ELSE LET s1 == BeforeAt(Val(o))
             s2 == DropTrailingParen(s1)
             s3 == StripSet(CollapseSpaces(s2, 1), NameStripChars)
         IN  IF s3 = <<>> THEN NoneV ELSE Some(s3)

\* ---- _cut_university
HardTokens == {
    <<"T","R","A","N","S","C","R","I","P","T">>, <<"E","X","P","L","A","N","A","T","I","O","N">>, <<"G","R","A","D","E">>, <<"G","R","A","D","E","S">>, <<"R","E","G","I","S","T","R","A","R">>, <<"O","F","F","I","C","E">>,
    <<"P","H","O","N","E">>, <<"T","E","L">>, <<"F","A","X">>, <<"E","M","A","I","L">>, <<"P",".","O",".">>, <<"P","O"," ","B","O","X">>, <<"B","O","X">>, <<"W","W","W">>, <<"H","T","T","P">>}

DigitsAt(s, i, n) == i >= 1 /\ i + n - 1 <= Len(s) /\ \A k \in i..(i + n - 1) : IsDigit(s[k])
PhoneSep(s, i) == i <= Len(s) /\ (IsSpaceC(s[i]) \/ s[i] = "-")
\* \(?\d{3}\)?[\s\-]\d{3}[\s\-]\d{4} matched at position p
PhoneAt(s, p) ==
    LET a == IF s[p] = "(" THEN p + 1 ELSE p
        b == IF a + 3 <= Len(s) /\ s[a + 3] = ")" THEN a + 4 ELSE a + 3
    IN  /\ DigitsAt(s, a, 3)
        /\ PhoneSep(s, b)
        /\ DigitsAt(s, b + 1, 3)
        /\ PhoneSep(s, b + 4)
        /\ DigitsAt(s, b + 5, 4)

UnivStripChars == {" ", "-", ",", ":", ";"}
_cut_university(s) ==
    LET up == Upper(s)
        cutpoints == {Find(up, t) : t \in {h \in HardTokens : Contains(up, h)}}
                     \cup (LET ph == {p \in 1..Len(s) : PhoneAt(s, p)}
                           IN  IF ph = {} THEN {} ELSE {MinOf(ph)})
    IN  StripSet(IF cutpoints = {} THEN s ELSE SubSeq(s, 1, MinOf(cutpoints) - 1),
                 UnivStripChars)

\* ---- the name patterns, each searched in joined; the result is the optional
\* ---- group 1 of the leftmost match
LineStarts(s) == {p \in 1..Len(s) : p = 1 \/ s[p - 1] = "\n"}

\* "\s*(.+)$" from position a: the captured rest of the line
RestOfLine(s, a) ==
    LET b == SkipSpaces(s, a)
        back == {k \in a..Len(s) : s[k] # "\n"}
    IN  IF b <= Len(s) THEN Some(SubSeq(s, b, LineEnd(s, b) - 1))
        ELSE IF back # {} THEN Some(<<s[MaxOf(back)]>>)
        ELSE NoneV

\* the leftmost line start at which Cap (an optional capture) is not None
LeftmostCapture(s, caps) ==
    LET hits == {p \in LineStarts(s) : ~IsNone(caps[p])}
    IN  IF hits = {} THEN NoneV ELSE caps[MinOf(hits)]

\* (?im)^\s*Record of:\s*(.+?)(?:\s*Page:.*$|$)
RecordOfAt(s, p) ==
    LET u == Upper(s)
        q == SkipSpaces(s, p)
        a == q + 10
        b == SkipSpaces(s, a)
        back == {k \in a..Len(s) : s[k] # "\n"}
        stops == {e \in (b + 1)..LineEnd(s, b) :
                     \/ e = LineEnd(s, b)
                     \/ MatchAt(u, <<"P","A","G","E",":">>, SkipSpaces(s, e))}
    IN  IF ~MatchAt(u, <<"R","E","C","O","R","D"," ","O","F",":">>, q) THEN NoneV
        ELSE IF b <= Len(s) THEN Some(SubSeq(s, b, MinOf(stops) - 1))
        ELSE IF back # {} THEN Some(<<s[MaxOf(back)]>>)
        ELSE NoneV
NamePat1(s) == LeftmostCapture(s, [p \in LineStarts(s) |-> RecordOfAt(s, p)])

\* (?im)^\s*Issued To:\s*([A-Z][A-Z\s.\-']+)\b.*$
IssuedClass(c) == IsLetter(c) \/ IsSpaceC(c) \/ c \in {".", "-", "'"}
IssuedToAt(s, p) ==
    LET u == Upper(s)
        q == SkipSpaces(s, p)
        b == SkipSpaces(s, q + 10)
        out_of_class == {k \in (b + 1)..Len(s) : ~IssuedClass(s[k])}
        e == IF out_of_class = {} THEN Len(s) + 1 ELSE MinOf(out_of_class)
        ends == {x \in (b + 2)..e : WordBoundary(s, x)}
    IN  IF /\ MatchAt(u, <<"I","S","S","U","E","D"," ","T","O",":">>, q)
           /\ b <= Len(s) /\ IsLetter(s[b])
           /\ ends # {}
        THEN Some(SubSeq(s, b, MaxOf(ends) - 1))
        ELSE NoneV
NamePat2(s) == LeftmostCapture(s, [p \in LineStarts(s) |-> IssuedToAt(s, p)])

\* (?im)^\s*Student Name\s*:\s*(.+)$   and   (?im)^\s*Name\s*:\s*(.+)$
LabelAt(s, p, label) ==
    LET q == SkipSpaces(s, p)
        c == SkipSpaces(s, q + Len(label))
    IN  IF MatchAt(Upper(s), label, q) /\ c <= Len(s) /\ s[c] = ":"
        THEN RestOfLine(s, c + 1)
        ELSE NoneV
NamePat3(s) == LeftmostCapture(s, [p \in LineStarts(s) |-> LabelAt(s, p, <<"S","T","U","D","E","N","T"," ","N","A","M","E">>)])
NamePat4(s) == LeftmostCapture(s, [p \in LineStarts(s) |-> LabelAt(s, p, <<"N","A","M","E">>)])

\* (?im)^\s*([A-Z][A-Za-z'.\-]+,\s+[A-Z][A-Za-z'.\-]+)\s+\d{2,3}[- ]?\d{2}[- ]?\d{4}\b
NameClass(c) == IsLetter(c) \/ c \in {"'", ".", "-"}
NameRunEnd(s, i) ==
    \* the position after the run of name characters that starts at i
    LET stop == {k \in i..Len(s) : ~NameClass(s[k])}
    IN  IF stop = {} THEN Len(s) + 1 ELSE MinOf(stop)
IdSep(s, i) == i <= Len(s) /\ s[i] \in {"-", " "}
\* \d{2,3}[- ]?\d{2}[- ]?\d{4}\b matched at position d
IdNumberAt(s, d) ==
    \E n1 \in {2, 3}, g1 \in {0, 1}, g2 \in {0, 1} :
        LET a == d + n1
            b == a + g1
            c == b + 2 + g2
        IN  /\ DigitsAt(s, d, n1)
            /\ g1 = 1 => IdSep(s, a)
            /\ DigitsAt(s, b, 2)
            /\ g2 = 1 => IdSep(s, b + 2)
            /\ DigitsAt(s, c, 4)
            /\ WordBoundary(s, c + 4)
LastFirstAt(s, p) ==
    LET q == SkipSpaces(s, p)
        e1 == NameRunEnd(s, q + 1)
        w == SkipSpaces(s, e1 + 1)
        e2 == NameRunEnd(s, w + 1)
        d == SkipSpaces(s, e2)
    IN  IF /\ q <= Len(s) /\ IsLetter(s[q])
           /\ e1 > q + 1 /\ e1 <= Len(s) /\ s[e1] = ","
           /\ w > e1 + 1 /\ w <= Len(s) /\ IsLetter(s[w])
           /\ e2 > w + 1
           /\ d > e2
           /\ IdNumberAt(s, d)
        THEN Some(SubSeq(s, q, e2 - 1))
        ELSE NoneV
NamePat5(s) == LeftmostCapture(s, [p \in LineStarts(s) |-> LastFirstAt(s, p)])

\* the cascade: the capture of the first pattern that matches
NameCapture(joined) ==
    IF ~IsNone(NamePat1(joined)) THEN NamePat1(joined)
    ELSE IF ~IsNone(NamePat2(joined)) THEN NamePat2(joined)
    ELSE IF ~IsNone(NamePat3(joined)) THEN NamePat3(joined)
    ELSE IF ~IsNone(NamePat4(joined)) THEN NamePat4(joined)
    ELSE NamePat5(joined)

\* cand.rsplit(" ", 1)[0]
BeforeLastSpace(s) ==
    LET sp == {k \in 1..Len(s) : s[k] = " "}
    IN  IF sp = {} THEN s ELSE SubSeq(s, 1, MaxOf(sp) - 1)

\* the body of "if m:" for the matched pattern
NameCandidate(capture) ==
    LET cand == Strip(capture)
        local == Strip(BeforeAt(cand))
    IN  StripSet(IF Contains(cand, <<"@">>) THEN BeforeLastSpace(local) ELSE cand,
                 NameStripChars)

\* is_label_value: re.search(r"^[A-Z][A-Za-z &/]+\s:\s", s)
LabelClass(c) == IsLetter(c) \/ c \in {" ", "&", "/"}
is_label_value(s) ==
    /\ Len(s) >= 1 /\ s[1] \in UpperLetters
    /\ \E k \in 3..(Len(s) - 2) :
          /\ \A x \in 2..(k - 1) : LabelClass(s[x])
          /\ IsSpaceC(s[k]) /\ s[k + 1] = ":" /\ IsSpaceC(s[k + 2])

\* (?i)\b(UNIVERSITY|COLLEGE|INSTITUTE|POLYTECHNIC|COMMUNITY COLLEGE)\b  (search)
InstitutionWords == {<<"U","N","I","V","E","R","S","I","T","Y">>, <<"C","O","L","L","E","G","E">>, <<"I","N","S","T","I","T","U","T","E">>, <<"P","O","L","Y","T","E","C","H","N","I","C">>,
                     <<"C","O","M","M","U","N","I","T","Y"," ","C","O","L","L","E","G","E">>}
HasInstitutionKeyword(up) ==
    \E w \in InstitutionWords, i \in 1..Len(up) :
        MatchAt(up, w, i) /\ WordBoundary(up, i) /\ WordBoundary(up, i + Len(w))

MIN_UNIV_LEN == 6
MAX_UNIV_LEN == 200

\* the candidate a row of the window adds, if any
UnivCandidate(row) ==
    LET txt == Strip(_row_text(row))
        up == Upper(txt)
        cut == _cut_university(txt)
    IN  IF \/ Contains(up, <<"I","N","S","T","I","T","U","T","I","O","N"," ","I","N","F","O","R","M","A","T","I","O","N"," ","C","O","N","T","I","N","U","E","D">>)
           \/ is_label_value(txt)
        THEN <<>>
        ELSE IF /\ HasInstitutionKeyword(up)
                /\ MIN_UNIV_LEN <= Len(cut) /\ Len(cut) <= MAX_UNIV_LEN
        THEN <<cut>> ELSE <<>>
\* the candidates of the rows of the window, in row order
UnivCandidates(window) == Concat([k \in 1..Len(window) |-> UnivCandidate(window[k])])

\* next((c for c in candidates if test(c)), None)
FirstBase(cands) ==
    LET hits == {k \in 1..Len(cands) : Contains(Upper(cands[k]), <<"S","T","A","T","E"," ","U","N","I","V","E","R","S","I","T","Y"," ","O","F"," ","N","E","W"," ","Y","O","R","K">>)}
    IN  IF hits = {} THEN NoneV ELSE Some(cands[MinOf(hits)])
FirstAddon(cands) ==
    LET hits == {k \in 1..Len(cands) :
                    \/ Contains(Upper(cands[k]), <<"C","O","L","L","E","G","E"," ","A","T">>)
                    \/ EndsWith(Upper(cands[k]), <<"C","O","R","T","L","A","N","D">>)}
    IN  IF hits = {} THEN NoneV ELSE Some(cands[MinOf(hits)])

score(s) ==
    LET up == Upper(s)
        B(b, n) == IF b THEN n ELSE 0
    IN  B(Contains(up, <<"S","T","A","T","E"," ","U","N","I","V","E","R","S","I","T","Y"," ","O","F"," ","N","E","W"," ","Y","O","R","K">>), 4)
        + B(Contains(up, <<"C","O","L","L","E","G","E"," ","A","T">>), 3)
        + B(Contains(up, <<"C","O","R","T","L","A","N","D">>), 2)
        + B(Contains(up, <<"U","N","I","V","E","R","S","I","T","Y">>), 2)
        + B(Contains(up, <<"C","O","L","L","E","G","E">>), 1)
        + B(10 <= Len(up) /\ Len(up) <= 90, 1)

\* candidates.sort(key=score, reverse=True); candidates[0]
BestCandidate(cands) ==
    LET best == MaxOf({score(cands[k]) : k \in 1..Len(cands)})
    IN  cands[MinOf({k \in 1..Len(cands) : score(cands[k]) = best})]

WindowPages == {1, 2, 3, 4}

University(window) ==
    LET cands == UnivCandidates(window)
        base == FirstBase(cands)
        addon == FirstAddon(cands)
    IN  IF ~IsNone(base) /\ ~IsNone(addon) /\ ~Contains(Val(base), Val(addon))
        THEN Some(Strip(Val(base) \o <<" ">> \o Val(addon)))
        ELSE IF cands # <<>> THEN Some(BestCandidate(cands))
        ELSE NoneV

\* the result is <<student, university>>, both optional strings
_extract_student_university(rows) ==
    LET window == SelectSeq(rows, LAMBDA r : r.page \in WindowPages)
        joined == Join([k \in 1..Len(window) |-> _row_text(window[k])], <<" ","\n">>)
        cap == NameCapture(joined)
        student == IF IsNone(cap) THEN NoneV ELSE Some(NameCandidate(Val(cap)))
    IN  <<_clean_student_name(student), University(window)>>

----------------------------------------------------------------------------
(* Subjects, the source selector, run_file and the report of main          *)

SUBJECT_ALIASES == [
    key \in {<<"m","a","t","h">>, <<"s","t","a","t">>, <<"c","s">>, <<"p","h","y","s","i","c","s">>, <<"c","h","e","m">>, <<"b","i","o">>, <<"e","c","o","n">>, <<"e","n","g","r">>} |->
        IF key = <<"m","a","t","h">> THEN {<<"M","A","T","H">>, <<"M","A","T">>, <<"M","T","H">>, <<"M","A">>, <<"M","A","T","G">>, <<"M","A","S">>, <<"M","A","P">>, <<"S","T","A">>, <<"S","T","A","T">>}
        ELSE IF key = <<"s","t","a","t">> THEN {<<"S","T","A","T">>, <<"S","T","A">>}
        ELSE IF key = <<"c","s">> THEN {<<"C","S">>, <<"C","S","C">>, <<"C","S","C","I">>, <<"C","S","E">>, <<"C","O","S","C">>}
        ELSE IF key = <<"p","h","y","s","i","c","s">> THEN {<<"P","H","Y","S">>, <<"P","H","Y">>}
        ELSE IF key = <<"c","h","e","m">> THEN {<<"C","H","E","M">>, <<"C","H","M">>}
        ELSE IF key = <<"b","i","o">> THEN {<<"B","I","O","L">>, <<"B","I","O">>}
        ELSE IF key = <<"e","c","o","n">> THEN {<<"E","C","O","N">>, <<"E","C","N">>}
        ELSE {<<"E","N","G","R">>, <<"E","G","R">>}]

\* the set the code builds before sorting it (its only reader makes a set again)
_expand_subjects(subjects) ==
    UNION {IF Lower(subjects[k]) \in DOMAIN SUBJECT_ALIASES
           THEN SUBJECT_ALIASES[Lower(subjects[k])]
           ELSE {Upper(subjects[k])} : k \in 1..Len(subjects)}

_allowed_set(subjects) == {Upper(p) : p \in _expand_subjects(subjects)}

\* what is installed: lib = [pdfplumber, paddle, pdf2image, init_ok]
\* a file on disk: f = [pdf, ocr]; pdf = [raises, pages]; ocr = [convert_ok, images]

\* os.environ.get("TRANSCRIPT_FORCE_OCR", "").strip() == "1"
EnvForces(envval) == Strip(envval) = <<"1">>

\* _extract_rows_pdfplumber(path) with the default tolerance: [raised, rows]
ExtractPdf(lib, f) ==
    IF ~lib.pdfplumber THEN [raised |-> FALSE, rows |-> <<>>]
    ELSE IF f.pdf.raises THEN [raised |-> TRUE, rows |-> <<>>]
    ELSE [raised |-> FALSE, rows |-> _extract_rows_pdfplumber(f.pdf.pages, Y_TOL_PDF)]

\* _extract_rows_ocr(path) with the default tolerance
ExtractOcr(lib, f) ==
    _extract_rows_ocr([paddle |-> lib.paddle, pdf2image |-> lib.pdf2image,
                       init_ok |-> lib.init_ok, convert_ok |-> f.ocr.convert_ok,
                       images |-> f.ocr.images], Y_TOL_OCR)

\* mutants of the source selector: the force flag ignored; OCR never tried
\* as a fallback
_extract_rows_unforced(lib, envval, f, prefer_ocr) ==
    LET pdf == ExtractPdf(lib, f)
        rows_ocr == ExtractOcr(lib, f)
    IN  IF pdf.raised
        THEN [raised |-> TRUE, rows |-> <<>>, ocr_used |-> FALSE, ocr_called |-> FALSE]
        ELSE IF pdf.rows # <<>>
        THEN [raised |-> FALSE, rows |-> pdf.rows, ocr_used |-> FALSE, ocr_called |-> FALSE]
        ELSE [raised |-> FALSE, rows |-> rows_ocr, ocr_used |-> rows_ocr # <<>>,
              ocr_called |-> TRUE]
_extract_rows_no_fallback(lib, envval, f, prefer_ocr) ==
    LET force_ocr == prefer_ocr \/ EnvForces(envval)
        pdf == ExtractPdf(lib, f)
        rows_ocr == ExtractOcr(lib, f)
    IN  IF force_ocr
        THEN [raised |-> FALSE, rows |-> rows_ocr, ocr_used |-> rows_ocr # <<>>,
              ocr_called |-> TRUE]
        ELSE [raised |-> pdf.raised, rows |-> pdf.rows, ocr_used |-> FALSE,
              ocr_called |-> FALSE]

\* _extract_rows: [raised, rows, ocr_used, ocr_called]; raised when the PDF
\* library raises, ocr_called when _extract_rows_ocr is called
_extract_rows(lib, envval, f, prefer_ocr) ==
    LET force_ocr == prefer_ocr \/ EnvForces(envval)
        pdf == IF force_ocr THEN [raised |-> FALSE, rows |-> <<>>] ELSE ExtractPdf(lib, f)
        rows_ocr == ExtractOcr(lib, f)
    IN  IF pdf.raised
        THEN [raised |-> TRUE, rows |-> <<>>, ocr_used |-> FALSE, ocr_called |-> FALSE]
        ELSE IF pdf.rows # <<>>
        THEN [raised |-> FALSE, rows |-> pdf.rows, ocr_used |-> FALSE, ocr_called |-> FALSE]
        ELSE IF rows_ocr # <<>>
        THEN [raised |-> FALSE, rows |-> rows_ocr, ocr_used |-> TRUE, ocr_called |-> TRUE]
        ELSE [raised |-> FALSE, rows |-> <<>>, ocr_used |-> FALSE, ocr_called |-> TRUE]

\* run_file: [raised, matches, student, university, ocr_used, ocr_called]
\* the result for the rows ex that _extract_rows gave and their two fields
RunFileResult(ex, allowed, fields) ==
    [raised |-> ex.raised,
     matches |-> IF ex.raised THEN <<>> ELSE _scan_rows_for_courses(ex.rows, allowed),
     student |-> IF ex.raised THEN NoneV ELSE fields[1],
     university |-> IF ex.raised THEN NoneV ELSE fields[2],
     ocr_used |-> ex.ocr_used,
     ocr_called |-> ex.ocr_called]
RunFileOn(ex, allowed) == RunFileResult(ex, allowed, _extract_student_university(ex.rows))
run_file(lib, envval, f, subjects, prefer_ocr) ==
    The({RunFileOn(ex, _allowed_set(subjects)) :
            ex \in {_extract_rows(lib, envval, f, prefer_ocr)}})

\* Path(inp).name: what follows the last "/"
PathName(inp) ==
    LET sl == {k \in 1..Len(inp) : inp[k] = "/"}
    IN  IF sl = {} THEN inp ELSE SubSeq(inp, MaxOf(sl) + 1, Len(inp))

\* ---- the printed lines
HeaderLine(base) == <<"R","e","s","u","l","t","s"," ","f","o","r"," ">> \o base
Unknown == <<"(","u","n","k","n","o","w","n",")">>
\* the mutant prints the value without the placeholder
StudentLineRaw(student) ==
    <<" "," ","S","t","u","d","e","n","t",":"," ">> \o (IF IsNone(student) THEN <<"N","o","n","e">> ELSE Val(student))
StudentLine(student) ==
    <<" "," ","S","t","u","d","e","n","t",":"," ">> \o (IF IsNone(student) \/ student = Some(<<>>) THEN Unknown ELSE Val(student))
UniversityLine(university) ==
    <<" "," ","U","n","i","v","e","r","s","i","t","y",":"," ">> \o
        (IF IsNone(university) \/ university = Some(<<>>) THEN Unknown ELSE Val(university))
CourseLine(rec) ==
    <<" "," ">> \o rec.code \o <<" ", "EMDASH", " ">> \o rec.title
           \o <<" ", "EMDASH", " ">> \o <<"g","r","a","d","e",":"," ">> \o rec.grade
NoCoursesLine == <<" ","[","n","o"," ","c","o","u","r","s","e"," ","c","o","d","e","s"," ","d","e","t","e","c","t","e","d","]">>
VerboseLine(ocr_used) ==
    <<"[","v","e","r","b","o","s","e","]"," ","f","a","l","l","b","a","c","k","_","o","c","r","_","a","c","t","i","v","a","t","e","d",":"," ">> \o (IF ocr_used THEN <<"T","r","u","e">> ELSE <<"F","a","l","s","e">>)
ParsedLine(base, subjects) ==
    <<"P","a","r","s","e","d"," ">> \o base \o <<" ","(","s","u","b","j","e","c","t","s",":"," ">> \o Join(subjects, <<","," ">>) \o <<")">>

\* sort_key: re.search(r"(\d{3,4})([A-Z]?)$", code), as [num, suf]
SortKeyMatch(code, i, n) ==
    /\ DigitsAt(code, i, n)
    /\ \/ i + n = Len(code) + 1
       \/ i + n = Len(code) /\ code[Len(code)] \in UpperLetters
sort_key(code) ==
    LET starts == {i \in 1..Len(code) : \E n \in {3, 4} : SortKeyMatch(code, i, n)}
        i == MinOf(starts)
        n == IF SortKeyMatch(code, i, 4) THEN 4 ELSE 3
    IN  IF starts = {} THEN [num |-> 9999, suf |-> <<>>]
        ELSE [num |-> IntOf(SubSeq(code, i, i + n - 1)),
              suf |-> SubSeq(code, i + n, Len(code))]

\* the order of the keys (int, str): suf is empty or one capital letter
SufRank(suf) ==
    IF suf = <<>> THEN 0 ELSE CHOOSE k \in 1..Len(UpperSeq) : UpperSeq[k] = suf[1]
\* a variant that compares the numbers only
KeyLessNumberOnly(a, b) == a.num < b.num
KeyLess(a, b) == a.num < b.num \/ (a.num = b.num /\ SufRank(a.suf) < SufRank(b.suf))

\* the loop over matches: a key seen before is skipped; the mutant skips none
RECURSIVE KeepAll(_)
KeepAll(matches) ==
    IF matches = <<>> THEN <<>>
    ELSE Append(KeepAll(Front(matches)),
                [key |-> sort_key(Last(matches).code), line |-> CourseLine(Last(matches))])
RECURSIVE DedupEntries(_)
DedupEntries(matches) ==
    IF matches = <<>> THEN <<>>
    ELSE LET m == Last(matches)
             before == Front(matches)
         IN  IF \E k \in 1..Len(before) : before[k] = m
             THEN DedupEntries(before)
             ELSE Append(DedupEntries(before),
                         [key |-> sort_key(m.code), line |-> CourseLine(m)])

\* sorted(entries, key=lambda t: t[0]): a stable sort
SortEntries(s) ==
    LET n == Len(s)
        Pos(i) == Cardinality({j \in 1..n : \/ KeyLess(s[j].key, s[i].key)
                                            \/ ~KeyLess(s[i].key, s[j].key) /\ j < i}) + 1
    IN  [k \in 1..n |-> s[CHOOSE i \in 1..n : Pos(i) = k]]

\* "if not entries: ... else: ..."; the mutant has lost the else
ReportBodyNoElse(ents) ==
    <<NoCoursesLine>> \o [k \in 1..Len(ents) |-> SortEntries(ents)[k].line]
ReportBody(ents) ==
    IF ents = <<>> THEN <<NoCoursesLine>>
    ELSE [k \in 1..Len(ents) |-> SortEntries(ents)[k].line]

----------------------------------------------------------------------------
(* Values of the variables a specification does not use                    *)

MainIdle ==
    /\ args = [inputs |-> <<>>, subjects |-> <<>>, force_ocr |-> FALSE, verbose |-> FALSE]
    /\ env = <<>>
    /\ inst = [pdfplumber |-> FALSE, paddle |-> FALSE, pdf2image |-> FALSE, init_ok |-> FALSE]
    /\ files = <<>>
    /\ pc = "idle" /\ fi = 0 /\ res = <<>> /\ entries = <<>> /\ out = <<>> /\ ocr_calls = <<>>
ScanIdle ==
    s_rows = <<>> /\ s_allowed = {} /\ s_i = 0 /\ s_out = <<>> /\ s_pc = "idle"
GroupIdle ==
    /\ g_words = <<>> /\ g_tol = 0 /\ g_i = 0 /\ g_st = <<>> /\ g_split = 0
    /\ g_prows = <<>> /\ g_lines = <<>> /\ g_orows = <<>> /\ g_pc = "idle"
PairIdle ==
    /\ p_rows = <<>> /\ p_k = 0 /\ p_scan = <<>> /\ p_j = 0 /\ p_st = <<>>
    /\ p_rec = <<>> /\ p_pc = "idle"
SortIdle == q_matches = <<>> /\ q_lines = <<>> /\ q_pc = "idle"
CleanIdle == c_raw = <<>> /\ c_name = <<>> /\ c_pc = "idle"

\* the sequences over S of length at most n
SeqsUpTo(S, n) == UNION {[1..k -> S] : k \in 0..n}

----------------------------------------------------------------------------
(* SpecGroup: the row groupers on a page of words sorted by (top, x0)      *)

MaxWords == 3
GroupTops == {1000, 1020, 1040}
GroupX0s == {0, 100}
GroupTexts == {<<"a">>, <<" ">>}
Tolerances == {-10, 0, Y_TOL_DEBUG, Y_TOL_PDF, Y_TOL_OCR}

GroupWords ==
    {Word(t, x, x + 50, top, top + 80) : t \in GroupTexts, x \in GroupX0s, top \in GroupTops}

IsSortedWords(ws) ==
    \A i \in 1..Len(ws), j \in 1..Len(ws) : i < j => ~WordKeyLess(ws[j], ws[i])

InitGroup ==
    /\ MainIdle /\ ScanIdle /\ PairIdle /\ SortIdle /\ CleanIdle
    /\ g_words \in {ws \in SeqsUpTo(GroupWords, MaxWords) : IsSortedWords(ws)}
    /\ g_tol \in Tolerances
    /\ g_split \in 1..(Len(g_words) + 1)
    /\ g_i = 1
    /\ g_st = [cur |-> NoneV, rows |-> <<>>]
    /\ g_prows = <<>>
    /\ g_lines = <<>>
    /\ g_orows = <<>>
    /\ g_pc = "loop"

\* one iteration of "for w in words" of group_words_into_rows
GroupWord ==
    /\ g_pc = "loop" /\ g_i <= Len(g_words)
    /\ g_st' = DD_Step(g_st, g_words[g_i], g_tol)
    /\ g_i' = g_i + 1
    /\ UNCHANGED <<g_words, g_tol, g_split, g_prows, g_lines, g_orows, g_pc>>

\* the flush after the loop, and the return
GroupReturn ==
    /\ g_pc = "loop" /\ g_i > Len(g_words)
    /\ g_st' = [cur |-> NoneV, rows |-> DD_Flush(g_st)]
    /\ g_pc' = "grouped"
    /\ UNCHANGED <<g_words, g_tol, g_i, g_split, g_prows, g_lines, g_orows>>

\* _extract_rows_pdfplumber on the same words laid out on two pages
GroupPages == <<SubSeq(g_words, 1, g_split - 1), SubSeq(g_words, g_split, Len(g_words))>>
ExtractPages ==
    /\ g_pc = "grouped"
    /\ g_prows' = _extract_rows_pdfplumber(GroupPages, g_tol)
    /\ g_pc' = "extracted"
    /\ UNCHANGED <<g_words, g_tol, g_i, g_st, g_split, g_lines, g_orows>>

\* _extract_rows_ocr on the same words laid out on two pages, each word an OCR
\* line, the lines in any order
WordOrders == {f \in [1..Len(g_words) -> 1..Len(g_words)] :
                 \A a \in 1..Len(g_words), b \in 1..Len(g_words) : f[a] = f[b] => a = b}
LineOfWord(w) == OcrLine(Box(w.x0, w.top, w.x1, w.bottom), w.text)
PageLines(order) ==
    <<[k \in 1..(g_split - 1) |-> LineOfWord(g_words[order[k]])],
      [k \in 1..(Len(g_words) - g_split + 1) |-> LineOfWord(g_words[order[g_split - 1 + k]])]>>
GroupOcr ==
    /\ g_pc = "grouped"
    /\ \E order \in WordOrders :
          /\ g_lines' = PageLines(order)
          /\ g_orows' = _extract_rows_ocr(
                            [paddle |-> TRUE, pdf2image |-> TRUE, init_ok |-> TRUE,
                             convert_ok |-> TRUE,
                             images |-> <<Some(PageLines(order)[1]), Some(PageLines(order)[2])>>],
                            g_tol)
    /\ g_pc' = "ocr"
    /\ UNCHANGED <<g_words, g_tol, g_i, g_st, g_split, g_prows>>

NextGroup == GroupWord \/ GroupReturn \/ ExtractPages \/ GroupOcr
SpecGroup == InitGroup /\ [][NextGroup /\ UNCHANGED <<mainVars, scanVars, pairVars, sortVars, cleanVars>>]_vars

\* ---- C7
ToksByX0(row) ==
    \A i \in 1..Len(row.toks), j \in 1..Len(row.toks) : i < j => row.toks[i].x0 <= row.toks[j].x0
RowsByY(rows) ==
    \A i \in 1..Len(rows), j \in 1..Len(rows) : i < j => rows[i].y <= rows[j].y
RowsByPageY(rows) ==
    \A i \in 1..Len(rows), j \in 1..Len(rows) : i < j => ~RowKeyLess(rows[j], rows[i])

\* C7: for a word list sorted by (top, x0) and any tolerance, every row that
\* group_words_into_rows and _extract_rows_pdfplumber produce has its words in
\* non-decreasing x0 order, and the rows are non-decreasing in y, resp. (page, y).
C7_RowsOrdered ==
    /\ \A k \in 1..Len(g_st.rows) : ToksByX0(g_st.rows[k])
    /\ g_pc \in {"grouped", "extracted"} => RowsByY(g_st.rows)
    /\ g_pc = "extracted" =>
          /\ \A k \in 1..Len(g_prows) : ToksByX0(g_prows[k])
          /\ RowsByPageY(g_prows)

\* C7 witness: a row was closed whose words arrived with a larger x0 first,
\* and the page extractor has produced rows on two pages
C7_Witness ==
    /\ g_pc = "extracted"
    /\ Len(g_prows) >= 2 /\ g_prows[1].page # g_prows[Len(g_prows)].page
    /\ \E k \in 1..Len(g_st.rows) : Len(g_st.rows[k].toks) >= 2
    /\ \E i \in 1..Len(g_words), j \in 1..Len(g_words) :
          /\ i < j /\ g_words[i].x0 > g_words[j].x0
          /\ g_words[i].text # <<" ">> /\ g_words[j].text # <<" ">>
          /\ Abs(g_words[j].top - g_words[i].top) <= g_tol
          /\ Len(g_st.rows) = 1

\* ---- C11
\* a text that is empty or holds white space only
IsBlankText(t) == \A i \in 1..Len(t) : IsSpaceC(t[i])
NoBlankToken(row) == \A k \in 1..Len(row.toks) : ~IsBlankText(row.toks[k].text)
NonBlankWords(ws) == SelectSeq(ws, LAMBDA w : ~IsBlankText(w.text))

\* C11 (as stated): no row of group_words_into_rows or of
\* _extract_rows_pdfplumber holds a token whose text is empty or white space
\* only, and the rows are those of the words with such words left out (a blank
\* word starts no row).
C11_BlankDiscarded ==
    /\ \A k \in 1..Len(g_st.rows) : NoBlankToken(g_st.rows[k])
    /\ ~IsNone(g_st.cur) => NoBlankToken(Val(g_st.cur))
    /\ g_pc \in {"grouped", "extracted"} =>
          g_st.rows = group_words_into_rows(NonBlankWords(g_words), g_tol)
    /\ g_pc = "extracted" =>
          /\ \A k \in 1..Len(g_prows) : NoBlankToken(g_prows[k])
          /\ g_prows = _extract_rows_pdfplumber(
                           <<NonBlankWords(GroupPages[1]), NonBlankWords(GroupPages[2])>>, g_tol)

\* C11, the part that holds: debug_dump's grouper discards the blank words
C11_DebugDumpDiscards ==
    /\ \A k \in 1..Len(g_st.rows) : NoBlankToken(g_st.rows[k])
    /\ ~IsNone(g_st.cur) => NoBlankToken(Val(g_st.cur))
    /\ g_pc \in {"grouped", "extracted"} =>
          g_st.rows = group_words_into_rows(NonBlankWords(g_words), g_tol)

\* ---- C16
\* every word of the row has its top within y_tol of the row's y
RowWithinTol(row, y_tol) == \A k \in 1..Len(row.toks) : Abs(row.toks[k].y0 - row.y) <= y_tol
\* the words a grouper is given, as <<text of the token, x0, top>>, in the
\* order it places them
DebugKeys == [k \in 1..Len(g_words) |-> <<Strip(g_words[k].text), g_words[k].x0, g_words[k].top>>]
PdfKeys(p) ==
    [k \in 1..Len(GroupPages[p]) |->
        <<_normalize_text(GroupPages[p][k].text), GroupPages[p][k].x0, GroupPages[p][k].top>>]
OcrKeys(p) ==
    [k \in 1..Len(g_lines[p]) |->
        <<_normalize_text(g_lines[p][k].txt), g_lines[p][k].box[1][1], g_lines[p][k].box[1][2]>>]
KeyOf(t) == <<t.text, t.x0, t.y0>>
PlacesOf(t, keys) == {i \in 1..Len(keys) : keys[i] = KeyOf(t)}
\* every word of the row is one of the words given (of the page, for a row of
\* a page), and the row's y is the top of the word of the row placed first
RowYFirstPlaced(row, keys) ==
    /\ \A k \in 1..Len(row.toks) : PlacesOf(row.toks[k], keys) # {}
    /\ \E k \in 1..Len(row.toks) :
          /\ row.y = row.toks[k].y0
          /\ \A m \in 1..Len(row.toks) :
                MinOf(PlacesOf(row.toks[k], keys)) <= MinOf(PlacesOf(row.toks[m], keys))
OnePage(row) == \A k \in 1..Len(row.toks) : row.toks[k].page = row.page

\* C16: for a tolerance that is not negative, in every row of
\* group_words_into_rows (the open row included), of _extract_rows_pdfplumber
\* and of _extract_rows_ocr every word's top is within y_tol of the row's y; the
\* row's y is the top of the word placed first in the row; and the words of a
\* row of a page are words of that page.
C16_RowTolerance ==
    /\ g_pc # "idle" =>
          /\ \A k \in 1..Len(g_st.rows) :
                /\ g_tol >= 0 => RowWithinTol(g_st.rows[k], g_tol)
                /\ RowYFirstPlaced(g_st.rows[k], DebugKeys)
          /\ ~IsNone(g_st.cur) =>
                /\ g_tol >= 0 => RowWithinTol(Val(g_st.cur), g_tol)
                /\ RowYFirstPlaced(Val(g_st.cur), DebugKeys)
    /\ \A k \in 1..Len(g_prows) :
          /\ g_tol >= 0 => RowWithinTol(g_prows[k], g_tol)
          /\ OnePage(g_prows[k])
          /\ RowYFirstPlaced(g_prows[k], PdfKeys(g_prows[k].page))
    /\ \A k \in 1..Len(g_orows) :
          /\ g_tol >= 0 => RowWithinTol(g_orows[k], g_tol)
          /\ OnePage(g_orows[k])
          /\ RowYFirstPlaced(g_orows[k], OcrKeys(g_orows[k].page))

\* the OCR grouper made two rows on a page, one of them of two words whose
\* leftmost word was not the one placed first and is within the tolerance of
\* the other row as well
C16_Witness ==
    /\ g_pc = "ocr" /\ g_tol = Y_TOL_DEBUG /\ Len(g_orows) = 2
    /\ g_orows[1].page = g_orows[2].page
    /\ \E k \in 1..2 :
          /\ Len(g_orows[k].toks) = 2
          /\ g_orows[k].y # g_orows[k].toks[1].y0
          /\ Abs(g_orows[k].toks[1].y0 - g_orows[3 - k].y) <= g_tol

\* the sequential groupers have closed a row whose y is not its leftmost word's top
C16_WitnessPdf ==
    /\ g_pc = "extracted" /\ g_tol = Y_TOL_PDF
    /\ \E k \in 1..Len(g_prows) :
          Len(g_prows[k].toks) = 2 /\ g_prows[k].y # g_prows[k].toks[1].y0
    /\ \E k \in 1..Len(g_st.rows) :
          Len(g_st.rows[k].toks) = 2 /\ g_st.rows[k].y # g_st.rows[k].toks[1].y0

----------------------------------------------------------------------------
(* SpecScan: _scan_rows_for_courses, one row per step                      *)

MaxToks == 4
ScanVocab == {<<"M","A","T","H">>, <<"m","a","t","h">>, <<"1","0","1">>, <<"-">>, <<"G","P","A">>,
              <<"C","a","l","c","u","l","u","s">>, <<"A">>}
ScanAllowed == {{<<"M","A","T","H">>}, {<<"C","S">>}}

\* a row of tokens laid out left to right on a grid
GridRow(texts, page, y) ==
    Row(page, y, [k \in 1..Len(texts) |->
                    Tok(texts[k], 600 * (k - 1), 600 * (k - 1) + 500, y, y + 80, page)])

RowsBefore == {<<>>, <<GridRow(<<<<"I","n","t","r","o">>, <<"M","A","T","H">>>>, 1, 1000)>>}
EndRow == GridRow(<<<<"1","0","1">>, <<"E","N","D">>, <<"O","F">>,
                    <<"T","R","A","N","S","C","R","I","P","T">>>>, 1, 1400)
RowsAfter == {<<>>, <<GridRow(<<<<"I","N">>, <<"P","R","O","G","R","E","S","S">>>>, 1, 1400)>>,
              <<EndRow>>}
FocusRows == {GridRow(texts, 1, 1200) : texts \in SeqsUpTo(ScanVocab, MaxToks) \ {<<>>}}

InitScan ==
    /\ MainIdle /\ GroupIdle /\ PairIdle /\ SortIdle /\ CleanIdle
    /\ s_rows \in {b \o <<f>> \o a : b \in RowsBefore, f \in FocusRows, a \in RowsAfter}
    /\ s_allowed \in ScanAllowed
    /\ s_i = 1
    /\ s_out = <<>>
    /\ s_pc = "loop"

\* one iteration of "while i < n"
ScanStep ==
    /\ s_pc = "loop" /\ s_i <= Len(s_rows)
    /\ s_out' = s_out \o ScanRow(s_rows, s_allowed, s_i, _title_column_x_per_page(s_rows))
    /\ s_i' = s_i + 1
    /\ UNCHANGED <<s_rows, s_allowed, s_pc>>

\* the rewrite of the grades after the loop, and the return
ScanReturn ==
    /\ s_pc = "loop" /\ s_i > Len(s_rows)
    /\ s_out' = FinishScan(s_rows, s_out)
    /\ s_pc' = "done"
    /\ UNCHANGED <<s_rows, s_allowed, s_i>>

NextScan == ScanStep \/ ScanReturn
SpecScan == InitScan /\ [][NextScan /\ UNCHANGED <<mainVars, groupVars, pairVars, sortVars, cleanVars>>]_vars

\* ---- C1
\* the tokens MATH 101 start at token k: adjacent, or around a separator
ExactMath101At(toks, k) ==
    k + 1 <= Len(toks) /\ toks[k].text = <<"M","A","T","H">> /\ toks[k + 1].text = <<"1","0","1">>
Math101At(toks, k) ==
    /\ k + 1 <= Len(toks) /\ Upper(toks[k].text) = <<"M","A","T","H">>
    /\ \/ toks[k + 1].text = <<"1","0","1">>
       \/ /\ k + 2 <= Len(toks)
          /\ toks[k + 1].text \in {<<":">>, <<"-">>, <<"ENDASH">>, <<"EMDASH">>}
          /\ toks[k + 2].text = <<"1","0","1">>
\* the rows that hold occurrences, and how many a row holds
ExactCount(row) == Cardinality({k \in 1..Len(row.toks) : ExactMath101At(row.toks, k)})
Math101Count(row) == Cardinality({k \in 1..Len(row.toks) : Math101At(row.toks, k)})
\* a row ends in MATH and the next row starts with 101
SplitMath101(rows) ==
    \E k \in 1..(Len(rows) - 1) :
        /\ rows[k].toks # <<>> /\ rows[k + 1].toks # <<>>
        /\ Upper(Last(rows[k].toks).text) = <<"M","A","T","H">>
        /\ rows[k + 1].toks[1].text = <<"1","0","1">>
Math101Records == Cardinality({k \in 1..Len(s_out) : s_out[k].code = <<"M","A","T","H"," ","1","0","1">>})

\* C1 (as stated): a document with exactly one line holding exactly one
\* occurrence of the tokens MATH 101 gives exactly one record with code
\* MATH 101 when MATH is allowed and none when it is not, whatever the other
\* tokens of the line are.
C1_AsStated ==
    (/\ s_pc = "done"
     /\ \E r \in 1..Len(s_rows) :
           /\ ExactCount(s_rows[r]) = 1
           /\ \A q \in 1..Len(s_rows) : q # r => ExactCount(s_rows[q]) = 0)
    => Math101Records = (IF <<"M","A","T","H">> \in s_allowed THEN 1 ELSE 0)

\* C1 (amended): the same, for a document in which the one line that holds the
\* code MATH 101 (adjacent tokens or around a separator, in any letter case) is
\* not an administrative or heading row, and in which no row ending in MATH is
\* followed by a row starting with 101.
C1_OneRecordPerOccurrence ==
    (/\ s_pc = "done"
     /\ ~SplitMath101(s_rows)
     /\ \E r \in 1..Len(s_rows) :
           /\ Math101Count(s_rows[r]) = 1
           /\ ~_is_admin_row(Strip(_row_text(s_rows[r])))
           /\ \A q \in 1..Len(s_rows) : q # r => Math101Count(s_rows[q]) = 0)
    => Math101Records = (IF <<"M","A","T","H">> \in s_allowed THEN 1 ELSE 0)

\* C1 witness: the scan has returned one MATH 101 record for a three-row
\* document whose middle row holds the code around a separator after another token
C1_Witness ==
    /\ s_pc = "done" /\ Len(s_rows) = 3 /\ <<"M","A","T","H">> \in s_allowed
    /\ ~SplitMath101(s_rows)
    /\ Math101Count(s_rows[2]) = 1 /\ ExactCount(s_rows[2]) = 0
    /\ Len(s_rows[2].toks) = 4 /\ s_rows[2].toks[1].text = <<"C","a","l","c","u","l","u","s">>
    /\ Math101Records = 1

----------------------------------------------------------------------------
(* The files of the model's disk                                           *)

\* a line of words on a grid: word k at x0 = left + 600 (k - 1), 50 wide
WordLine(texts, left, top) ==
    [k \in 1..Len(texts) |->
        Word(texts[k], left + 600 * (k - 1), left + 600 * (k - 1) + 500, top, top + 110)]
\* a line of OCR boxes, one box per word
OcrWordLine(texts, left, top) ==
    [k \in 1..Len(texts) |->
        OcrLine(Box(left + 2500 * (k - 1), top, left + 2500 * (k - 1) + 2000, top + 400),
                texts[k])]

\* tests/smoke_cli_test.py: Helvetica 12 at (72, 720) and (72, 690) on the
\* default page; the word boxes are those of the font's widths
SmokePages == <<
    << Word(<<"N","a","m","e",":">>, 720, 1073, 1133, 1244), Word(<<"T","e","s","t">>, 1107, 1340, 1133, 1244),
       Word(<<"S","t","u","d","e","n","t">>, 1373, 1787, 1133, 1244),
       Word(<<"M","A","T","H">>, 720, 1060, 1433, 1544), Word(<<"1","0","1">>, 1093, 1294, 1433, 1544),
       Word(<<"C","a","l","c","u","l","u","s">>, 1327, 1787, 1433, 1544), Word(<<"I">>, 1820, 1854, 1433, 1544),
       Word(<<"A">>, 1887, 1967, 1433, 1544) >> >>

\* the same course three times, once under another title and once on the
\* next page
DupPages == <<
    WordLine(<<<<"M","A","T","H">>, <<"1","0","1">>, <<"C","a","l","c","u","l","u","s">>, <<"3",".","0","0">>, <<"A">>>>, 720, 1000)
    \o WordLine(<<<<"M","A","T","H">>, <<"1","0","1">>, <<"A","l","g","e","b","r","a">>, <<"3",".","0","0">>, <<"A">>>>, 720, 1200),
    WordLine(<<<<"M","A","T","H">>, <<"1","0","1">>, <<"C","a","l","c","u","l","u","s">>, <<"3",".","0","0">>, <<"A">>>>, 720, 1400) >>

\* a short page without courses, names or institutions
ShortPages == << WordLine(<<<<"H","e","l","l","o">>, <<"W","o","r","l","d">>>>, 720, 1000) >>

\* a scanned page: the PDF library finds no words
ScanPages == << <<>> >>

\* three pages with a letterhead, a name and courses out of order
UnivPages == <<
    WordLine(<<<<"S","t","a","t","e">>, <<"U","n","i","v","e","r","s","i","t","y">>, <<"o","f">>, <<"N","e","w">>, <<"Y","o","r","k">>>>, 720, 500)
    \o WordLine(<<<<"C","o","l","l","e","g","e">>, <<"a","t">>, <<"C","o","r","t","l","a","n","d">>>>, 720, 700),
    WordLine(<<<<"R","e","c","o","r","d">>, <<"o","f",":">>, <<"J","a","n","e">>, <<"D","o","e">>, <<"P","a","g","e",":">>, <<"1">>>>, 720, 900)
    \o WordLine(<<<<"M","A","T","H">>, <<"2","0","1">>, <<"A","l","g","e","b","r","a">>, <<"3",".","0","0">>, <<"B","+">>>>, 720, 1100),
    WordLine(<<<<"C","S">>, <<"1","0","1">>, <<"P","r","o","g","r","a","m","m","i","n","g">>, <<"4",".","0","0">>, <<"A">>>>, 720, 1300)
    \o WordLine(<<<<"M","A","T","H">>, <<"1","2","0","A">>, <<"S","t","a","t","i","s","t","i","c","s">>, <<"3",".","0","0">>, <<"A","-">>>>, 720, 500) >>

OcrPlain == [convert_ok |-> TRUE,
             images |-> <<Some(OcrWordLine(<<<<"S","c","a","n","n","e","d"," ","p","a","g","e">>>>, 3000, 4000))>>]
OcrCourse == [convert_ok |-> TRUE,
              images |-> <<Some(OcrWordLine(<<<<"M","A","T","H">>, <<"2","0","1">>, <<"A","l","g","e","b","r","a">>, <<"3",".","0","0">>, <<"B">>>>,
                                            3000, 4000))>>]
OcrNoConvert == [convert_ok |-> FALSE, images |-> <<>>]
OcrPageFails == [convert_ok |-> TRUE, images |-> <<NoneV>>]

Readable(pages) == [raises |-> FALSE, pages |-> pages]
Unreadable == [raises |-> TRUE, pages |-> <<>>]

FileNames == {<<"s","m","o","k","e",".","p","d","f">>, <<"d","u","p",".","p","d","f">>, <<"i","n","/","s","h","o","r","t",".","p","d","f">>, <<"s","c","a","n",".","p","d","f">>, <<"b","a","d",".","p","d","f">>,
              <<"u","n","i","v",".","p","d","f">>}
Disk(name) ==
    CASE name = <<"s","m","o","k","e",".","p","d","f">>    -> [pdf |-> Readable(SmokePages), ocr |-> OcrPlain]
      [] name = <<"d","u","p",".","p","d","f">>      -> [pdf |-> Readable(DupPages),   ocr |-> OcrNoConvert]
      [] name = <<"i","n","/","s","h","o","r","t",".","p","d","f">> -> [pdf |-> Readable(ShortPages), ocr |-> OcrCourse]
      [] name = <<"s","c","a","n",".","p","d","f">>     -> [pdf |-> Readable(ScanPages),  ocr |-> OcrCourse]
      [] name = <<"b","a","d",".","p","d","f">>      -> [pdf |-> Unreadable,           ocr |-> OcrPlain]
      [] name = <<"u","n","i","v",".","p","d","f">>     -> [pdf |-> Readable(UnivPages),  ocr |-> OcrPageFails]

Inst(p, q, c, i) == [pdfplumber |-> p, paddle |-> q, pdf2image |-> c, init_ok |-> i]
Installations == {Inst(TRUE, TRUE, TRUE, TRUE), Inst(FALSE, TRUE, TRUE, TRUE),
                  Inst(TRUE, FALSE, TRUE, FALSE), Inst(TRUE, TRUE, FALSE, TRUE),
                  Inst(TRUE, TRUE, TRUE, FALSE)}
EnvValues == {<<>>, <<"1">>, <<"0">>}
SubjectChoices == {<<<<"m","a","t","h">>>>, <<<<"s","t","a","t">>, <<"c","s">>>>}

----------------------------------------------------------------------------
(* Spec: main over a list of input files                                   *)

MaxFiles == 2

Range(s) == {s[k] : k \in 1..Len(s)}

InitMainAt ==
    /\ pc = "header" /\ fi = 1 /\ res = <<>> /\ entries = <<>> /\ out = <<>>
    /\ ocr_calls = <<>>

Init ==
    /\ ScanIdle /\ GroupIdle /\ PairIdle /\ SortIdle /\ CleanIdle
    /\ args \in [inputs : SeqsUpTo(FileNames, MaxFiles) \ {<<>>},
                 subjects : SubjectChoices,
                 force_ocr : BOOLEAN,
                 verbose : BOOLEAN]
    /\ env \in EnvValues
    /\ inst \in Installations
    /\ files = [n \in Range(args.inputs) |-> Disk(n)]
    /\ InitMainAt

base == PathName(args.inputs[fi])

\* print(f"Results for {base}")
PrintHeader ==
    /\ pc = "header"
    /\ out' = Append(out, HeaderLine(base))
    /\ pc' = "run_file"
    /\ UNCHANGED <<args, env, inst, files, fi, res, entries, ocr_calls>>

\* run_file(...) returns; student = _clean_student_name(student)
CleanStudent(r) == [r EXCEPT !.student = _clean_student_name(r.student)]
RunFile ==
    /\ pc = "run_file"
    /\ res' = CleanStudent(run_file(inst, env, files[args.inputs[fi]], args.subjects,
                                    args.force_ocr))
    /\ ~res'.raised
    /\ ocr_calls' = IF res'.ocr_called THEN Append(ocr_calls, args.inputs[fi]) ELSE ocr_calls
    /\ pc' = "student"
    /\ UNCHANGED <<args, env, inst, files, fi, entries, out>>

\* run_file(...) raises when _extract_rows does: nothing in main catches it
RunFileRaises ==
    /\ pc = "run_file"
    /\ _extract_rows(inst, env, files[args.inputs[fi]], args.force_ocr).raised
    /\ pc' = "crashed"
    /\ UNCHANGED <<args, env, inst, files, fi, res, entries, out, ocr_calls>>

PrintStudent ==
    /\ pc = "student"
    /\ out' = Append(out, StudentLine(res.student))
    /\ pc' = "university"
    /\ UNCHANGED <<args, env, inst, files, fi, res, entries, ocr_calls>>

PrintUniversity ==
    /\ pc = "university"
    /\ out' = Append(out, UniversityLine(res.university))
    /\ pc' = "entries"
    /\ UNCHANGED <<args, env, inst, files, fi, res, entries, ocr_calls>>

\* the loop over matches that fills entries
BuildEntries ==
    /\ pc = "entries"
    /\ entries' = DedupEntries(res.matches)
    /\ pc' = "courses"
    /\ UNCHANGED <<args, env, inst, files, fi, res, out, ocr_calls>>

\* the placeholder or the sorted course lines
PrintCourses ==
    /\ pc = "courses"
    /\ out' = out \o ReportBody(entries)
    /\ pc' = IF args.verbose THEN "verbose" ELSE "parsed"
    /\ UNCHANGED <<args, env, inst, files, fi, res, entries, ocr_calls>>

PrintVerbose ==
    /\ pc = "verbose"
    /\ out' = Append(out, VerboseLine(res.ocr_used))
    /\ pc' = "parsed"
    /\ UNCHANGED <<args, env, inst, files, fi, res, entries, ocr_calls>>

\* print(f"Parsed ..."), then the next input or the end of main
PrintParsed ==
    /\ pc = "parsed"
    /\ out' = Append(out, ParsedLine(base, args.subjects))
    /\ IF fi < Len(args.inputs)
       THEN fi' = fi + 1 /\ pc' = "header"
       ELSE fi' = fi /\ pc' = "done"
    /\ UNCHANGED <<args, env, inst, files, res, entries, ocr_calls>>

Next ==
    \/ PrintHeader \/ RunFile \/ RunFileRaises \/ PrintStudent \/ PrintUniversity
    \/ BuildEntries \/ PrintCourses \/ PrintVerbose \/ PrintParsed

Spec == Init /\ [][Next /\ UNCHANGED <<scanVars, groupVars, pairVars, sortVars, cleanVars>>]_vars

----------------------------------------------------------------------------
(* SpecNull: main on one short file whose words are drawn from a vocabulary *)

MaxNullToks == 3
NullVocab == {<<"N","a","m","e",":">>, <<"J","a","n","e">>, <<"C","o","l","l","e","g","e">>, <<":">>, <<"H","e","l","l","o">>}

\* a page of words; brk[k] says that a new line starts after word k
NullPage(texts, brk) ==
    [k \in 1..Len(texts) |->
        Word(texts[k], 720 + 600 * (k - 1), 720 + 600 * (k - 1) + 500,
             1000 + 200 * Cardinality({j \in 1..(k - 1) : brk[j]}),
             1110 + 200 * Cardinality({j \in 1..(k - 1) : brk[j]}))]
NullPdfs ==
    {Unreadable} \cup
    {Readable(<<NullPage(texts, brk)>>) :
        texts \in SeqsUpTo(NullVocab, MaxNullToks) \ {<<>>},
        brk \in [1..(MaxNullToks - 1) -> BOOLEAN]}

InitNull ==
    /\ ScanIdle /\ GroupIdle /\ PairIdle /\ SortIdle /\ CleanIdle
    /\ args \in [inputs : {<<<<"i","n","/","s","h","o","r","t",".","p","d","f">>>>},
                 subjects : {<<<<"m","a","t","h">>>>},
                 force_ocr : BOOLEAN,
                 verbose : BOOLEAN]
    /\ env = <<>>
    /\ inst = Inst(TRUE, TRUE, TRUE, TRUE)
    /\ \E p \in NullPdfs : files = [n \in Range(args.inputs) |-> [pdf |-> p, ocr |-> OcrPageFails]]
    /\ InitMainAt

SpecNull == InitNull /\ [][Next /\ UNCHANGED <<scanVars, groupVars, pairVars, sortVars, cleanVars>>]_vars

----------------------------------------------------------------------------
(* What the claims about main speak of                                     *)

CurFile == files[args.inputs[fi]]
Forced == args.force_ocr \/ EnvForces(env)
\* main holds run_file's result for the current file
HasResult == pc \in {"student", "university", "entries", "courses", "verbose", "parsed", "done"}
\* the course lines of the current file are printed
AfterCourses == pc \in {"verbose", "parsed", "done"}
\* the number of input files that run_file has returned for
Ran == IF pc \in {"header", "run_file", "crashed"} THEN fi - 1 ELSE fi

\* the kind of a printed line, read off its text
Kind(line) ==
    IF StartsWith(line, <<"R","e","s","u","l","t","s"," ","f","o","r"," ">>) THEN "header"
    ELSE IF StartsWith(line, <<" "," ","S","t","u","d","e","n","t",":"," ">>) THEN "student"
    ELSE IF StartsWith(line, <<" "," ","U","n","i","v","e","r","s","i","t","y",":"," ">>) THEN "university"
    ELSE IF line = NoCoursesLine THEN "nocourses"
    ELSE IF StartsWith(line, <<"[","v","e","r","b","o","s","e","]"," ">>) THEN "verbose"
    ELSE IF StartsWith(line, <<"P","a","r","s","e","d"," ">>) THEN "parsed"
    ELSE IF StartsWith(line, <<" "," ">>) /\ Contains(line, <<" ", "EMDASH", " ">>) THEN "course"
    ELSE "other"

\* the lines printed for the current file: from its header on
CurBlock ==
    LET hs == {k \in 1..Len(out) : Kind(out[k]) = "header"}
    IN  IF hs = {} THEN <<>> ELSE SubSeq(out, MaxOf(hs), Len(out))
LinesOf(block, recs) ==
    Cardinality({k \in 1..Len(block) : \E m \in recs : block[k] = CourseLine(m)})

\* what the two extractors give for a file, whether or not the code runs them
PrimaryRowsOf(f) == ExtractPdf(inst, f).rows
OcrRowsOf(f) == ExtractOcr(inst, f)
MatchCount(rows) == Len(_scan_rows_for_courses(rows, _allowed_set(args.subjects)))
TextLen(rows) == Len(Join([k \in 1..Len(rows) |-> _row_text(rows[k])], <<"\n">>))
OcrUnavailable(f) ==
    ~inst.paddle \/ ~inst.pdf2image \/ ~inst.init_ok \/ ~f.ocr.convert_ok

\* ---- C2
\* C2 (as stated): when the scanner produces the same (code, grade) pair two
\* or more times for a file, whatever the titles, the report of the file has
\* exactly one course line for that pair.
C2_AsStated ==
    AfterCourses =>
        \A i \in 1..Len(res.matches), j \in 1..Len(res.matches) :
            (i < j /\ res.matches[i].code = res.matches[j].code
                   /\ res.matches[i].grade = res.matches[j].grade)
            => LinesOf(CurBlock, {m \in Range(res.matches) :
                                     /\ m.code = res.matches[i].code
                                     /\ m.grade = res.matches[i].grade}) = 1

\* C2 (amended): de-duplication is by (code, title, grade): every record the
\* scanner produces for a file, however often, has exactly one course line in
\* the report of the file, and the report has no other course lines.
C2_OneLinePerRecord ==
    AfterCourses =>
        /\ \A m \in Range(res.matches) : LinesOf(CurBlock, {m}) = 1
        /\ \A k \in 1..Len(CurBlock) :
              Kind(CurBlock[k]) = "course" => \E m \in Range(res.matches) : CurBlock[k] = CourseLine(m)

\* C2 witness: the scanner produced one record twice and the same code and
\* grade under two titles, and the report is printed
C2_Witness ==
    /\ pc = "done"
    /\ \E i \in 1..Len(res.matches), j \in 1..Len(res.matches) :
          i < j /\ res.matches[i] = res.matches[j]
    /\ \E i \in 1..Len(res.matches), j \in 1..Len(res.matches) :
          /\ res.matches[i].code = res.matches[j].code
          /\ res.matches[i].grade = res.matches[j].grade
          /\ res.matches[i].title # res.matches[j].title

\* ---- C3
\* C3 (as stated): the reported source is OCR only when the OCR rows give
\* strictly more course matches than the primary rows, for every setting of
\* the force flag and the environment variable.
C3_AsStated ==
    (HasResult /\ res.ocr_used) =>
        MatchCount(OcrRowsOf(CurFile)) > MatchCount(PrimaryRowsOf(CurFile))

\* C3 (amended): the reported source is OCR exactly when OCR is forced (flag
\* or environment) or the primary extraction gives no rows, and the OCR
\* extraction gives at least one row; course counts play no part.
C3_SourceRule ==
    HasResult =>
        (res.ocr_used <=> /\ Forced \/ PrimaryRowsOf(CurFile) = <<>>
                          /\ OcrRowsOf(CurFile) # <<>>)

\* C3 witness: OCR was forced on a file whose primary rows hold a course, and
\* the OCR rows, which hold none, were used
C3_Witness ==
    /\ HasResult /\ res.ocr_used /\ Forced
    /\ MatchCount(PrimaryRowsOf(CurFile)) > 0
    /\ MatchCount(OcrRowsOf(CurFile)) = 0

\* ---- C4
\* C4 (as stated): a file whose primary text is shorter than 400 characters
\* and has no course match has _extract_rows_ocr called for it, also when the
\* primary rows are not empty and OCR is not forced.
C4_AsStated ==
    \A k \in 1..Ran :
        (/\ TextLen(PrimaryRowsOf(files[args.inputs[k]])) < 400
         /\ MatchCount(PrimaryRowsOf(files[args.inputs[k]])) = 0)
        => \E c \in 1..Len(ocr_calls) : ocr_calls[c] = args.inputs[k]

\* C4 (amended): _extract_rows_ocr is called for a file exactly when OCR is
\* forced (flag or environment) or the primary extraction gives no rows at
\* all; text length and course matches play no part.
C4_OcrTrigger ==
    /\ Len(ocr_calls) =
          Cardinality({k \in 1..Ran : Forced \/ PrimaryRowsOf(files[args.inputs[k]]) = <<>>})
    /\ \A c \in 1..Len(ocr_calls) :
          \E k \in 1..Ran : /\ ocr_calls[c] = args.inputs[k]
                            /\ Forced \/ PrimaryRowsOf(files[args.inputs[k]]) = <<>>

\* C4 witness: two files are done without forcing; the first has short primary
\* text without courses and no OCR call, the second no primary rows and a call
C4_Witness ==
    /\ pc = "done" /\ ~Forced /\ Len(args.inputs) = 2
    /\ PrimaryRowsOf(files[args.inputs[1]]) # <<>>
    /\ MatchCount(PrimaryRowsOf(files[args.inputs[1]])) = 0
    /\ PrimaryRowsOf(files[args.inputs[2]]) = <<>>
    /\ ocr_calls = <<args.inputs[2]>>

\* ---- C5
\* C5 (as stated): a PDF that the library cannot open is never fatal: main
\* stops only after the report of every input file, from header to Parsed line.
C5_NeverFatal ==
    /\ pc # "crashed"
    /\ pc = "done" =>
          \A k \in 1..Len(args.inputs) :
              /\ HeaderLine(PathName(args.inputs[k])) \in Range(out)
              /\ ParsedLine(PathName(args.inputs[k]), args.subjects) \in Range(out)

\* ---- C6
\* C6 (as stated): when the OCR path is attempted and the OCR stack is missing
\* or fails, the matches, student and university of the file are those of its
\* primary extraction.
C6_DegradesToPrimary ==
    (HasResult /\ res.ocr_called /\ OcrUnavailable(CurFile) /\ ~CurFile.pdf.raises)
    => /\ res.matches = _scan_rows_for_courses(PrimaryRowsOf(CurFile), _allowed_set(args.subjects))
       /\ res.student =
             _clean_student_name(_extract_student_university(PrimaryRowsOf(CurFile))[1])
       /\ res.university = _extract_student_university(PrimaryRowsOf(CurFile))[2]

\* ---- C8
SmokeRows(rows) ==
    /\ \E k \in 1..Len(rows) : _row_text(rows[k]) = <<"N","a","m","e",":"," ","T","e","s","t"," ","S","t","u","d","e","n","t">>
    /\ \E k \in 1..Len(rows) : _row_text(rows[k]) = <<"M","A","T","H"," ","1","0","1"," ","C","a","l","c","u","l","u","s"," ","I"," ","A">>

\* C8: for a one-page file whose primary extraction gives the rows
\* "Name: Test Student" and "MATH 101 Calculus I A", main with --subjects math
\* prints the header "Results for <file>" and a course line holding "MATH 101",
\* and not the no-course-codes placeholder.
C8_Smoke ==
    (/\ AfterCourses
     /\ args.subjects = <<<<"m","a","t","h">>>>
     /\ ~Forced
     /\ Len(CurFile.pdf.pages) = 1
     /\ SmokeRows(PrimaryRowsOf(CurFile)))
    => /\ CurBlock[1] = HeaderLine(base)
       /\ \E k \in 1..Len(CurBlock) :
             Kind(CurBlock[k]) = "course" /\ Contains(CurBlock[k], <<"M","A","T","H"," ","1","0","1">>)
       /\ \A k \in 1..Len(CurBlock) : CurBlock[k] # NoCoursesLine

\* C8 witness: the run over the smoke file alone has ended with its course line
C8_Witness ==
    /\ pc = "done" /\ args.inputs = <<<<"s","m","o","k","e",".","p","d","f">>>> /\ args.subjects = <<<<"m","a","t","h">>>>
    /\ ~Forced /\ SmokeRows(PrimaryRowsOf(CurFile))
    /\ out[1] = <<"R","e","s","u","l","t","s"," ","f","o","r"," ","s","m","o","k","e",".","p","d","f">>
    /\ out[2] = <<" "," ","S","t","u","d","e","n","t",":"," ","T","e","s","t"," ","S","t","u","d","e","n","t">>
    /\ out[4] = <<" "," ","M","A","T","H"," ","1","0","1"," ","EMDASH"," ","C","a","l","c","u","l","u","s"," ","EMDASH"," ","g","r","a","d","e",":"," ","A">>

\* ---- C9
UsedRows == _extract_rows(inst, env, CurFile, args.force_ocr).rows
WindowText(rows) ==
    LET window == SelectSeq(rows, LAMBDA r : r.page \in WindowPages)
    IN  Join([k \in 1..Len(window) |-> _row_text(window[k])], <<" ","\n">>)
NoNamePattern(rows) == IsNone(NameCapture(WindowText(rows)))
NoInstitution(rows) ==
    \A k \in 1..Len(rows) : ~HasInstitutionKeyword(Upper(_row_text(rows[k])))

\* C9: for rows in which no name pattern matches and no row holds an
\* institution keyword (the empty row sequence included),
\* _extract_student_university returns (None, None) and main prints both
\* fields as "(unknown)".
C9_NullFields ==
    (HasResult /\ NoNamePattern(UsedRows) /\ NoInstitution(UsedRows))
    => /\ _extract_student_university(UsedRows) = <<NoneV, NoneV>>
       /\ res.student = NoneV /\ res.university = NoneV
       /\ pc # "student" => CurBlock[2] = <<" "," ","S","t","u","d","e","n","t",":"," ","(","u","n","k","n","o","w","n",")">>
       /\ pc \notin {"student", "university"} => CurBlock[3] = <<" "," ","U","n","i","v","e","r","s","i","t","y",":"," ","(","u","n","k","n","o","w","n",")">>

\* C9 witness: a two-line file that holds the word "Name:" away from a line
\* start, and no institution, was reported with both placeholders
C9_Witness ==
    /\ pc = "done" /\ Len(UsedRows) = 2
    /\ \E k \in 1..Len(UsedRows[1].toks) : k > 1 /\ UsedRows[1].toks[k].text = <<"N","a","m","e",":">>
    /\ NoNamePattern(UsedRows) /\ NoInstitution(UsedRows)
    /\ out[2] = <<" "," ","S","t","u","d","e","n","t",":"," ","(","u","n","k","n","o","w","n",")">> /\ out[3] = <<" "," ","U","n","i","v","e","r","s","i","t","y",":"," ","(","u","n","k","n","o","w","n",")">>

\* ---- C10
Follows == {
    <<"start", "header">>, <<"header", "student">>, <<"student", "university">>,
    <<"university", "course">>, <<"university", "nocourses">>,
    <<"course", "course">>, <<"course", "verbose">>, <<"course", "parsed">>,
    <<"nocourses", "verbose">>, <<"nocourses", "parsed">>,
    <<"verbose", "parsed">>, <<"parsed", "header">>}
HeadersUpTo(k) == Cardinality({j \in 1..k : Kind(out[j]) = "header"})

\* C10: the printed lines come per file in the order header, Student line,
\* University line, then one or more course lines or else the placeholder
\* alone, then (after the verbose line, when asked for) the Parsed line of the
\* same file; the block of file k ends before the header of file k+1; and when
\* main ends the last input's Parsed line is the last line.
C10_ReportOrder ==
    /\ \A k \in 1..Len(out) :
          LET n == HeadersUpTo(k)
          IN  /\ <<IF k = 1 THEN "start" ELSE Kind(out[k - 1]), Kind(out[k])>> \in Follows
              /\ n \in 1..Len(args.inputs)
              /\ Kind(out[k]) = "header" => out[k] = HeaderLine(PathName(args.inputs[n]))
              /\ Kind(out[k]) = "parsed" =>
                    out[k] = ParsedLine(PathName(args.inputs[n]), args.subjects)
    /\ pc = "done" =>
          /\ out # <<>> /\ Kind(Last(out)) = "parsed"
          /\ HeadersUpTo(Len(out)) = Len(args.inputs)

\* C10 witness: a run over two files has ended, one block with two course
\* lines, the other with the placeholder, both with a verbose line
C10_Witness ==
    /\ pc = "done" /\ Len(args.inputs) = 2 /\ args.verbose
    /\ \E k \in 2..Len(out) : Kind(out[k - 1]) = "course" /\ Kind(out[k]) = "course"
    /\ \E k \in 1..Len(out) : Kind(out[k]) = "nocourses"

----------------------------------------------------------------------------
(* SpecPair: the body of the pair loop of _scan_rows_for_courses for the   *)
(* pair MATH 101 of row 1, one token of the title scan and one row of the  *)
(* stitch loop per step                                                    *)

MaxTail == 3
MaxCont == 4
W_MATH == <<"M","A","T","H">>
W_101 == <<"1","0","1">>
W_Calculus == <<"C","a","l","c","u","l","u","s">>
W_II == <<"I","I">>
W_ONLINE == <<"O","N","L","I","N","E">>
W_UG == <<"U","G">>
W_Credits == <<"3",".","0","0">>
W_A == <<"A">>
PairVocab == {W_Calculus, W_II, W_ONLINE, W_UG, W_Credits, W_A}

\* a row whose token k has the text ws[k][1] and the left edge ws[k][2]
PlacedRow(ws, y) ==
    Row(1, y, [k \in 1..Len(ws) |->
                 Tok(ws[k][1], ws[k][2], ws[k][2] + 200, y, y + 80, 1)])

\* the rows that may follow the anchor row
ContAligned == <<<<<<"T","o","p","i","c","s">>, 1200>>>>
ContNear == <<<<<<"I","n","t","r","o">>, 1200>>, <<<<"P","a","r","t">>, 1440>>>>
ContMixed == <<<<<<"M","i","s","c">>, 1200>>, <<<<"E","x","t","r","a">>, 1800>>>>
ContFlag == <<<<<<"R">>, 1200>>>>
ContCredits == <<<<<<"L","a","b">>, 1200>>, <<<<"1",".","0","0">>, 1210>>>>
ContAdmin == <<<<<<"G","P","A">>, 1200>>, <<<<"3",".","5","0">>, 1800>>>>
ContCourse == <<<<<<"C","S">>, 0>>, <<<<"1","0","1">>, 600>>, <<<<"P","r","o","g","r","a","m","m","i","n","g">>, 1200>>,
                <<<<"4",".","0","0">>, 1800>>, <<<<"B">>, 2400>>>>
ContKinds == {ContAligned, ContNear, ContMixed, ContFlag, ContCredits, ContAdmin, ContCourse}

AnchorRow(tail) == GridRow(<<W_MATH, W_101>> \o tail, 1, 1000)
ContRows(kinds) == [j \in 1..Len(kinds) |-> PlacedRow(kinds[j], 1000 + 200 * j)]
ContAnchors == {<<>>, <<W_Calculus>>, <<W_ONLINE, W_Calculus>>}
TailDocs == {<<AnchorRow(tail)>> : tail \in SeqsUpTo(PairVocab, MaxTail)}
ContDocs == {<<AnchorRow(tail)>> \o ContRows(kinds) :
                tail \in ContAnchors, kinds \in SeqsUpTo(ContKinds, MaxCont)}

\* right = toks[num_idx + 1:] of the anchor row, and the context of the pair
PairRight == SubSeq(p_rows[1].toks, 3, Len(p_rows[1].toks))
PairCx == [code_end_x |-> p_rows[1].toks[2].x1, next_pair_x0 |-> NoneV, title_min_x |-> NoneV]
PairStitchCx == [code_end_x |-> p_rows[1].toks[2].x1, title_min_x |-> NoneV,
                 title_left_x |-> p_scan.left]

InitPair ==
    /\ MainIdle /\ ScanIdle /\ GroupIdle /\ SortIdle /\ CleanIdle
    /\ p_rows \in TailDocs \cup ContDocs
    /\ p_k = 1
    /\ p_scan = [started |-> FALSE, left |-> NoneV, credits |-> NoneV, toks |-> <<>>,
                 done |-> FALSE]
    /\ p_j = 0
    /\ p_st = <<>>
    /\ p_rec = <<>>
    /\ p_pc = "title"

\* one iteration of "for k, t in enumerate(right)"
PairTitleToken ==
    /\ p_pc = "title" /\ ~p_scan.done /\ p_k <= Len(PairRight)
    /\ p_scan' = TitleStep(p_scan, PairRight, p_k, PairCx)
    /\ p_k' = p_k + 1
    /\ UNCHANGED <<p_rows, p_j, p_st, p_rec, p_pc>>

\* the title scan is over: joined_rows = 0 and j = i + 1
PairTitleEnd ==
    /\ p_pc = "title" /\ (p_scan.done \/ p_k > Len(PairRight))
    /\ p_st' = [toks |-> p_scan.toks, credits |-> p_scan.credits, joined_rows |-> 0,
                done |-> FALSE]
    /\ p_j' = 2
    /\ p_pc' = "stitch"
    /\ UNCHANGED <<p_rows, p_k, p_scan, p_rec>>

\* one iteration of "while j < n and joined_rows < 3"
PairStitchRow ==
    /\ p_pc = "stitch" /\ StitchContinues(p_st, p_rows, p_j)
    /\ p_st' = StitchRowStep(p_st, p_rows, p_j, PairStitchCx)
    /\ p_j' = p_j + 1
    /\ UNCHANGED <<p_rows, p_k, p_scan, p_rec, p_pc>>

\* the grade is determined and the record is appended to out
PairAppend ==
    /\ p_pc = "stitch" /\ ~StitchContinues(p_st, p_rows, p_j)
    /\ p_rec' = <<CourseRecord(MakeCode(Upper(p_rows[1].toks[1].text),
                                        Upper(p_rows[1].toks[2].text)),
                               MakeTitle(p_st.toks),
                               PairGrade(p_rows, 1, 1, p_st.credits))>>
    /\ p_pc' = "done"
    /\ UNCHANGED <<p_rows, p_k, p_scan, p_j, p_st>>

NextPair == PairTitleToken \/ PairTitleEnd \/ PairStitchRow \/ PairAppend
SpecPair == InitPair /\ [][NextPair /\ UNCHANGED <<mainVars, scanVars, groupVars, sortVars, cleanVars>>]_vars

\* ---- C12
\* a campus, delivery-mode or level marker
IsLevelMarker(text) == Upper(text) \in {<<"U","G">>, <<"G","R">>, <<"G">>, <<"U">>}
IsPretitleMarker(text) == Upper(Strip(text)) \in PRETITLE_TOKENS
IsMarker(text) == IsPretitleMarker(text) \/ IsLevelMarker(text)
\* the title scan examines the token PairRight[p_k] in this step
ScansToken == p_pc = "title" /\ p_k' = p_k + 1

\* C12 (as stated): a marker token met before any title token has been accepted
\* is skipped; a marker token met after a title token has been accepted ends the
\* scan without entering the title.
C12_MarkerTerminates ==
    [][(ScansToken /\ IsMarker(PairRight[p_k].text)) =>
          IF p_scan.toks = <<>>
          THEN p_scan'.toks = <<>> /\ ~p_scan'.done
          ELSE p_scan'.toks = p_scan.toks /\ p_scan'.done]_vars

\* C12 (amended): a marker token met before the title has begun (no token that
\* looks like a title word has been accepted yet) is skipped and changes nothing;
\* after the title has begun a LEVEL_TOKEN match ends the scan without entering
\* the title, while a member of PRETITLE_TOKENS is appended to the title and the
\* scan goes on.
C12_MarkerRule ==
    [][(ScansToken /\ IsMarker(PairRight[p_k].text)) =>
          /\ ~p_scan.started => p_scan' = p_scan
          /\ (p_scan.started /\ IsLevelMarker(PairRight[p_k].text)) =>
                p_scan'.toks = p_scan.toks /\ p_scan'.done
          /\ (p_scan.started /\ ~IsLevelMarker(PairRight[p_k].text)) =>
                /\ p_scan'.toks = Append(p_scan.toks, PairRight[p_k].text)
                /\ ~p_scan'.done]_vars

\* MATH 101 Calculus ONLINE UG: ONLINE was kept and UG ended the scan
C12_Witness ==
    /\ p_pc = "title" /\ p_k = 4 /\ p_scan.done
    /\ p_scan.toks = <<W_Calculus, W_ONLINE>>
    /\ IsLevelMarker(PairRight[3].text)

\* ---- C13
\* a strict letter grade stands right of a credits marker on the row
StrictGradeRightOfCredits(row) ==
    \E c \in 1..Len(row.toks), g \in 1..Len(row.toks) :
        /\ IsCredits(row.toks[c].text)
        /\ GRADE_TOKEN_STRICT(row.toks[g].text)
        /\ row.toks[g].x0 > row.toks[c].x0
\* a strict letter grade stands left of the token at code_x0 on the row
StrictGradeLeftOfCode(row, code_x0) ==
    \E g \in 1..Len(row.toks) :
        GRADE_TOKEN_STRICT(row.toks[g].text) /\ row.toks[g].x1 < code_x0
\* the phrase IN PROGRESS appears in the document
InProgressInDocument(rows) ==
    \E r \in 1..Len(rows) :
        Contains(Upper(_row_text(rows[r])), <<"I","N"," ","P","R","O","G","R","E","S","S">>)

\* C13 (as stated): a record whose anchor row has no strict letter grade right
\* of a credits marker and none left of the course code, in a document without
\* the phrase IN PROGRESS, has the grade "none".
C13_GradeSentinel ==
    (/\ p_pc = "done"
     /\ ~StrictGradeRightOfCredits(p_rows[1])
     /\ ~StrictGradeLeftOfCode(p_rows[1], p_rows[1].toks[1].x0)
     /\ ~InProgressInDocument(p_rows))
    => p_rec[1].grade = <<"n","o","n","e">>

\* C13: the grade letter of a later row is assigned to the course
C13_LaterRowGrade ==
    /\ p_pc = "done" /\ Len(p_rows) >= 2
    /\ Texts(p_rows[1].toks) = <<W_MATH, W_101, W_Calculus>>
    /\ Texts(p_rows[2].toks) = Texts(PlacedRow(ContCourse, 0).toks)
    /\ p_rec[1].grade = <<"B">>

\* ---- C14
\* the row is an administrative row or holds a course-code pair
EndsStitching(row) == _is_admin_row(Strip(_row_text(row))) \/ is_any_course_row(row)
\* the token text was taken from a token of the row that is aligned with left
TakenAligned(text, row, left) ==
    \E k \in 1..Len(row.toks) :
        row.toks[k].text = text /\ Abs(row.toks[k].x0 - left) <= ALIGN_TOL

\* C14: a step of the stitch loop only appends to the title, and when the row
\* p_rows[p_j] contributes tokens it is one of the 3 rows after the anchor row,
\* no row from the anchor row to it is an administrative or a course row, a
\* title-left-x was established on the anchor row, and each token taken has its
\* x0 within the alignment tolerance of that title-left-x.
C14_StitchGuarded ==
    [][(p_pc = "stitch" /\ p_j' = p_j + 1) =>
          /\ Len(p_st'.toks) >= Len(p_st.toks)
          /\ SubSeq(p_st'.toks, 1, Len(p_st.toks)) = p_st.toks
          /\ Len(p_st'.toks) > Len(p_st.toks) =>
                /\ p_j <= 1 + 3
                /\ \A r \in 2..p_j : ~EndsStitching(p_rows[r])
                /\ ~IsNone(p_scan.left)
                /\ \A k \in (Len(p_st.toks) + 1)..Len(p_st'.toks) :
                      TakenAligned(p_st'.toks[k], p_rows[p_j], Val(p_scan.left))]_vars

\* three rows were stitched and a fourth aligned row was left alone
C14_Witness ==
    /\ p_pc = "done" /\ Len(p_rows) = 5
    /\ p_st.toks = <<W_Calculus>> \o Texts(PlacedRow(ContAligned \o ContNear \o ContAligned, 0).toks)
    /\ Texts(p_rows[5].toks) = Texts(PlacedRow(ContAligned, 0).toks)
    /\ ~EndsStitching(p_rows[5])

\* ---- C15
\* the administrative rows: GPA, TOTAL, Dean's List ... rows, semester and
\* cumulative headings, END OF TRANSCRIPT, URL rows, FROM: and TO: rows
IsAdminRow(row) ==
    \/ ADMIN_ROW(_row_text(row)) \/ ADMIN_ROW(Strip(_row_text(row)))
    \/ URL_PAT(_row_text(row))
    \/ SEMESTER_HEADING(Upper(Strip(_row_text(row))))
    \/ CUMULATIVE_HEADING(Upper(Strip(_row_text(row))))
    \/ END_OF_TRANSCRIPT(Upper(_row_text(row)))
    \/ StartsWith(Upper(Strip(_row_text(row))), <<"F","R","O","M",":">>)
    \/ StartsWith(Upper(Strip(_row_text(row))), <<"T","O",":">>)
\* the code is made of a prefix token and of a later number token of the row
CodeOfRow(code, row) ==
    \E a \in 1..Len(row.toks), b \in 1..Len(row.toks) :
        a < b /\ code = MakeCode(Upper(row.toks[a].text), Upper(row.toks[b].text))
\* the records the iteration for row s_i has added to out
AddedRecords == SubSeq(s_out', Len(s_out) + 1, Len(s_out'))

\* C15: the iteration of the scan for an administrative row adds no record (the
\* row gives no prefix and no number, not even the prefix of a cross-row
\* stitch), and when the next row is administrative every record added has its
\* prefix and its number from the row itself, none has its number from the
\* administrative row.
C15_AdminNeverAnchor ==
    [][(s_pc = "loop" /\ s_i' = s_i + 1) =>
          /\ IsAdminRow(s_rows[s_i]) => AddedRecords = <<>>
          /\ (s_i + 1 <= Len(s_rows) /\ IsAdminRow(s_rows[s_i + 1])) =>
                \A k \in 1..Len(AddedRecords) : CodeOfRow(AddedRecords[k].code, s_rows[s_i])]_vars

\* the scan has passed a row ending in MATH that is followed by the
\* administrative row 101 END OF TRANSCRIPT, and an administrative row GPA MATH 101
C15_Witness ==
    /\ s_pc = "done" /\ s_allowed = {<<"M","A","T","H">>}
    /\ Len(s_rows) = 3 /\ s_rows[3] = EndRow /\ IsAdminRow(s_rows[3])
    /\ Texts(s_rows[2].toks) = <<<<"C","a","l","c","u","l","u","s">>, <<"M","A","T","H">>>>
    /\ s_out = <<>>

C15_WitnessAnchor ==
    /\ s_pc = "done" /\ s_allowed = {<<"M","A","T","H">>}
    /\ Len(s_rows) = 1 /\ IsAdminRow(s_rows[1])
    /\ Texts(s_rows[1].toks) = <<<<"G","P","A">>, <<"M","A","T","H">>, <<"1","0","1">>>>
    /\ s_out = <<>>

----------------------------------------------------------------------------
(* SpecSort: the presentation of the matches of one file in main           *)

MaxMatches == 3
\* the codes of the matches; the last one ends in the Kelvin sign, which
\* NUM_TOKEN_PAT takes for a letter and sort_key does not
SortCodes == {<<"M","A","T","H"," ","1","0","1">>, <<"C","S"," ","1","0","1">>,
              <<"M","A","T","H"," ","1","0","1","A">>, <<"M","A","T","H"," ","1","0","1","0">>,
              <<"M","A","T","H"," ","9","9","9","9">>,
              <<"M","A","T","H"," ","1","0","1","KELVIN">>}
SortMatches == {CourseRecord(code, <<"T">>, <<"A">>) : code \in SortCodes}

InitSort ==
    /\ MainIdle /\ ScanIdle /\ GroupIdle /\ PairIdle /\ CleanIdle
    /\ q_matches \in SeqsUpTo(SortMatches, MaxMatches)
    /\ q_lines = <<>>
    /\ q_pc = "matches"

\* the entries of the matches and the lines printed for them
SortAndPrint ==
    /\ q_pc = "matches"
    /\ q_lines' = ReportBody(DedupEntries(q_matches))
    /\ q_pc' = "printed"
    /\ UNCHANGED q_matches

NextSort == SortAndPrint
SpecSort ==
    InitSort /\ [][NextSort /\ UNCHANGED <<mainVars, scanVars, groupVars, pairVars, cleanVars>>]_vars

\* ---- C17
\* the number and the suffix of a code, read from its end: an optional capital
\* letter, before it the last 3 or 4 of at least 3 digits; 9999 without them
TrailingSuffix(code) ==
    IF code # <<>> /\ code[Len(code)] \in UpperLetters THEN <<code[Len(code)]>> ELSE <<>>
TrailingDigits(code) ==
    LET body == SubSeq(code, 1, Len(code) - Len(TrailingSuffix(code)))
        nondigits == {k \in 1..Len(body) : ~IsDigit(body[k])}
        from == IF nondigits = {} THEN 1 ELSE MaxOf(nondigits) + 1
        run == SubSeq(body, from, Len(body))
    IN  IF Len(run) > 4 THEN SubSeq(run, Len(run) - 3, Len(run)) ELSE run
CourseKey(code) ==
    IF Len(TrailingDigits(code)) >= 3
    THEN [num |-> IntOf(TrailingDigits(code)), suf |-> TrailingSuffix(code)]
    ELSE [num |-> 9999, suf |-> <<>>]
\* key a sorts before key b: the number first, the suffix second
CourseKeyBefore(a, b) ==
    \/ a.num < b.num
    \/ a.num = b.num /\ a.suf = <<>> /\ b.suf # <<>>
    \/ a.num = b.num /\ a.suf # <<>> /\ b.suf # <<>> /\ SufRank(a.suf) < SufRank(b.suf)
\* the match a printed course line stands for, and its first place in matches
MatchOfLine(line) == CHOOSE m \in SortMatches : CourseLine(m) = line
FirstPlace(m) == MinOf({k \in 1..Len(q_matches) : q_matches[k] = m})

\* C17: the course lines printed are those of the matches, each once, in
\* non-decreasing order of the key (number, suffix), lines of equal keys in the
\* order of the matches; a code without a trailing number has the number 9999.
C17_PresentationOrder ==
    (q_pc = "printed" /\ q_matches # <<>>) =>
       /\ {q_lines[k] : k \in 1..Len(q_lines)} = {CourseLine(q_matches[k]) : k \in 1..Len(q_matches)}
       /\ \A i \in 1..Len(q_lines), j \in 1..Len(q_lines) :
             i < j =>
                /\ q_lines[i] # q_lines[j]
                /\ ~CourseKeyBefore(CourseKey(MatchOfLine(q_lines[j]).code),
                                    CourseKey(MatchOfLine(q_lines[i]).code))
                /\ CourseKey(MatchOfLine(q_lines[i]).code) = CourseKey(MatchOfLine(q_lines[j]).code)
                      => FirstPlace(MatchOfLine(q_lines[i])) < FirstPlace(MatchOfLine(q_lines[j]))

\* MATH 101 with the Kelvin sign, MATH 9999 and CS 101 were the matches, in
\* this order: CS 101 is printed first, the other two keep their order
C17_Witness ==
    /\ q_pc = "printed"
    /\ q_matches = <<CourseRecord(<<"M","A","T","H"," ","1","0","1","KELVIN">>, <<"T">>, <<"A">>),
                     CourseRecord(<<"M","A","T","H"," ","9","9","9","9">>, <<"T">>, <<"A">>),
                     CourseRecord(<<"C","S"," ","1","0","1">>, <<"T">>, <<"A">>)>>
    /\ q_lines = <<CourseLine(q_matches[3]), CourseLine(q_matches[1]), CourseLine(q_matches[2])>>

----------------------------------------------------------------------------
(* SpecClean: the cleanup of the student name in _extract_student_university *)
(* and the second one in main                                               *)

MaxName == 4
\* a name is made of up to MaxName of these pieces
NamePieces == {<<"A">>, <<" ">>, <<"(","1",")">>, <<";">>, <<"@">>, <<"(">>, <<")">>}
Names == {Concat(ps) : ps \in SeqsUpTo(NamePieces, MaxName)}

InitClean ==
    /\ MainIdle /\ ScanIdle /\ GroupIdle /\ PairIdle /\ SortIdle
    /\ c_raw \in {NoneV} \cup {Some(s) : s \in Names}
    /\ c_name = c_raw
    /\ c_pc = "found"

\* student = _clean_student_name(student) before _extract_student_university returns
ExtractClean ==
    /\ c_pc = "found"
    /\ c_name' = _clean_student_name(c_name)
    /\ c_pc' = "extracted"
    /\ UNCHANGED c_raw

\* student = _clean_student_name(student) in main, before the name is printed
MainClean ==
    /\ c_pc = "extracted"
    /\ c_name' = _clean_student_name(c_name)
    /\ c_pc' = "printed"
    /\ UNCHANGED c_raw

NextClean == ExtractClean \/ MainClean
SpecClean ==
    InitClean /\ [][NextClean /\ UNCHANGED <<mainVars, scanVars, groupVars, pairVars, sortVars>>]_vars

\* ---- C18
\* C18 (as stated): the cleanup in main leaves the name as
\* _extract_student_university returned it, that is
\* _clean_student_name(_clean_student_name(s)) = _clean_student_name(s).
C18_CleanIdempotent ==
    c_pc = "printed" => c_name = _clean_student_name(c_raw)

\* C18: the name found ends in two parentheticals with digits, and main's
\* cleanup has removed the one the first cleanup left
C18_TwoParentheticals ==
    /\ c_pc = "printed"
    /\ c_raw = Some(<<"A"," ","(","1",")","(","1",")">>)
    /\ _clean_student_name(c_raw) = Some(<<"A"," ","(","1",")">>)
    /\ c_name = Some(<<"A">>)

====
